---- MODULE Spec2Model ----
(***************************************************************************)
(* Session / transport management layer of frida-web-client.              *)
(* One Session (src/lib/session.ts) owned by one Client                   *)
(* (src/unnamed/part_002), its scripts (src/lib/script.ts), the remote    *)
(* calls it has in flight and the notifications it has emitted; beside    *)
(* them one IceCandidateQueue (src/lib/session.ts) and one Script with    *)
(* its ScriptServices (src/lib/script.ts), each under its own operations. *)
(***************************************************************************)
EXTENDS Integers, Sequences, FiniteSets, TLC

\* ------------------------------------------------------------------ bounds
MaxPosts == 3
MaxResumes == 1
MaxScripts == 1
MaxSetups == 2
MaxSignals == 2
MaxCandidates == 3
MaxGatherings == 2
MaxRequests == 2
MaxMessages == 3
MaxCalls == 2
MaxBatches == 2

\* sizes (text.length + data.length) a posted record may have
MessageSizes == {1, 3 * 1024 * 1024}
\* batch ids of the inbound batches
RxBatchIds == 1 .. MaxBatches
\* persist-timeout values a session is attached with
PersistTimeouts == {0, 30}
\* batch ids the remote may report from AgentSession.resume
TxBatchIds == 0 .. MaxPosts

\* --------------------------------------------------------------- constants
maxSize == 4 * 1024 * 1024

ApplicationRequested == 1
ProcessReplaced == 2
ProcessTerminated == 3
ConnectionTerminated == 4
DeviceLost == 5

SessionDetachReason ==
    {ApplicationRequested, ProcessReplaced, ProcessTerminated, ConnectionTerminated, DeviceLost}

\* Crash | null : null is the empty tuple, a Crash is the 5-tuple of its fields
NoCrash == << >>
RawCrashes == { <<0, "", "", "", "">>, <<4321, "app", "summary", "report", "params">> }

\* reasons a session-detached signal may carry: the one detach() uses, the one
\* _onDetached singles out, and one of the three the code treats alike
SignalReasons == {ApplicationRequested, ProcessTerminated, ConnectionTerminated}

\* session ids a session-detached signal may carry; "s" is the modelled session
SessionIds == {"s", "x"}

\* remoteGone: the host no longer has the session (it was closed, or the host
\* signalled its end); a call made before that is answered, a later one fails.
\* AgentSession proxies: <<kind, transport, proxy number>>
NoSession == <<"none", 0, 0>>

VARIABLES
    \* Session fields
    state, persistTimeout, activeSession, obsoleteSession, lastRxBatchId,
    pendingMessages, nextSerial, pendingDeliveries, scripts, peerConnection, peerOptions,
    \* Script objects and the calls on them
    scriptState, scriptSession, creating, unloading,
    \* Client fields
    hostConnectionRequest, linkGen, sessions, openLinks, clientCalls,
    \* calls in flight
    inflight, resumes, setups, closing,
    \* environment and observers
    peerState, remoteGone, nextProxy, posted, remoteRx, events, ownedAtDestroy, returns, signals,
    rxLog,
    \* IceCandidateQueue fields, the timeouts it has scheduled, what it emitted
    \* and what it was given
    sessionState, gatheringState, pending, timer, timers, emitted, added, gatherings,
    \* one Script with its ScriptServices: fields, listeners, promises, and the
    \* messages dispatched to it, handed to its message handler and logged
    isDestroyed, listening, pendingRequests, nextRequestId, destroyedListeners,
    requestOutcome, completions, inbound, received, logged

\* the outbound pipeline
deliveryVars == <<pendingMessages, nextSerial, pendingDeliveries, inflight, posted, remoteRx>>
\* the transport handles
handleVars == <<activeSession, obsoleteSession, nextProxy>>
\* what Session._destroy, _onDetached and _handlePeerConnectionClosure write
destroyVars == <<state, scripts, scriptState, closing, sessions, events, ownedAtDestroy,
                 peerConnection, peerState>>
scriptCallVars == <<scriptSession, creating, unloading>>
linkVars == <<hostConnectionRequest, linkGen, openLinks, clientCalls>>
otherVars == <<persistTimeout, lastRxBatchId, rxLog, remoteGone, returns, signals>>

sessionVars == <<deliveryVars, handleVars, destroyVars, scriptCallVars, linkVars, otherVars,
                 resumes, setups, peerOptions>>
\* one IceCandidateQueue
iceVars == <<sessionState, gatheringState, pending, timer, timers, emitted, added, gatherings>>
\* one Script and its ScriptServices
serviceVars == <<isDestroyed, listening, pendingRequests, nextRequestId, destroyedListeners,
                 requestOutcome, completions, inbound, received, logged>>
\* the objects modelled beside the session
componentVars == <<iceVars, serviceVars>>

vars == <<sessionVars, componentVars>>

ScriptIds == 1 .. MaxScripts
RequestIds == 1 .. MaxRequests
CallIds == 1 .. MaxCalls
ResumeIds == 1 .. MaxResumes + 1
SetupIds == 1 .. MaxSetups

\* ------------------------------------------------------------- transports
\* the host connection of link gen is established and not lost
LinkUp(gen) == gen = linkGen /\ hostConnectionRequest = "resolved"

\* a relayed proxy works while its link is up, a peer proxy while its peer
\* connection is neither disconnected nor closed
Alive(h) ==
    \/ h[1] = "relay" /\ LinkUp(h[2])
    \/ h[1] = "peer" /\ peerState[h[2]] = "up"

\* -------------------------------------------------------------- emitters
Ev(type, arg, crash) == [type |-> type, arg |-> arg, crash |-> crash]

Range(seq) == {seq[i] : i \in 1 .. Len(seq)}

RECURSIVE Without(_, _)
Without(seq, S) ==
    IF seq = << >> THEN << >>
    ELSE (IF Head(seq) \in S THEN << >> ELSE <<Head(seq)>>) \o Without(Tail(seq), S)

\* the "destroyed" notifications of Script._destroy over the registry, a Map
\* iterated in insertion order
RECURSIVE DestroyEvents(_, _)
DestroyEvents(ids, st) ==
    IF ids = << >> THEN << >>
    ELSE (IF st[Head(ids)] = "created" THEN <<Ev("script.destroyed", Head(ids), NoCrash)>> ELSE << >>)
         \o DestroyEvents(Tail(ids), st)

\* ------------------------------------------------------------- delivery
\* Array.prototype.sort((a, b) => a.serial - b.serial): stable insertion by serial
RECURSIVE InsertBySerial(_, _)
InsertBySerial(q, m) ==
    IF q = << >> THEN <<m>>
    ELSE IF Head(q).serial <= m.serial THEN <<Head(q)>> \o InsertBySerial(Tail(q), m)
    ELSE <<m>> \o q

RECURSIVE SortBySerial(_)
SortBySerial(q) ==
    IF q = << >> THEN << >>
    ELSE InsertBySerial(SortBySerial(SubSeq(q, 1, Len(q) - 1)), q[Len(q)])

\* the loop without the cap: the whole queue in one batch
TakeBatchUncapped(q, batch, totalSize) == [batch |-> batch \o q, rest |-> << >>]

RECURSIVE TakeBatch(_, _, _)

\* the while loop of _maybeDeliverPendingMessages: every message it looks at has
\* been shifted off the queue, the one it breaks on included
TakeBatch(q, batch, totalSize) ==
    IF q = << >> THEN [batch |-> batch, rest |-> << >>]
    ELSE LET message == Head(q)
             messageSizeEstimate == message.size
         IN IF totalSize + messageSizeEstimate > maxSize /\ batch # << >>
            THEN [batch |-> batch, rest |-> Tail(q)]
            ELSE TakeBatch(Tail(q), Append(batch, message), totalSize + messageSizeEstimate)

\* the batch sent without counting the attempt
AttemptedUncounted(batch) == batch

Attempted(batch) ==
    [i \in 1 .. Len(batch) |-> [batch[i] EXCEPT !.deliveryAttempts = @ + 1]]

\* _maybeDeliverPendingMessages with _emitBatch / _deliverBatch up to the await:
\* the queue, the counter and the calls in flight after the pass
MaybeDeliverPendingMessages(st, q, deliveries, calls, handle) ==
    IF st # "attached" \/ q = << >>
    THEN [queue |-> q, deliveries |-> deliveries, calls |-> calls]
    ELSE LET t == TakeBatch(q, << >>, 0)
         IN IF persistTimeout = 0
            THEN [queue |-> t.rest, deliveries |-> deliveries,
                  calls |-> Append(calls, [messages |-> t.batch, batchId |-> 0,
                                           handle |-> handle, persistent |-> FALSE,
                                           arrived |-> FALSE, live |-> ~remoteGone])]
            ELSE LET messages == Attempted(t.batch)
                 IN [queue |-> t.rest, deliveries |-> deliveries + 1,
                     calls |-> Append(calls, [messages |-> messages,
                                              batchId |-> messages[Len(messages)].serial,
                                              handle |-> handle, persistent |-> TRUE,
                                              arrived |-> FALSE, live |-> ~remoteGone])]

Remove(seq, i) == SubSeq(seq, 1, i - 1) \o SubSeq(seq, i + 1, Len(seq))

\* calls made on one proxy are handled, and answered, in the order they were made
Oldest(i) == \A j \in 1 .. i - 1 : inflight[j].handle # inflight[i].handle


\* ---------------------------------------------------------------- Init
\* a session as Client.attach returns it, on the first link of the client
Init ==
    /\ state = "attached"
    /\ persistTimeout \in PersistTimeouts
    /\ activeSession = <<"relay", 1, 1>>
    /\ obsoleteSession = NoSession
    /\ lastRxBatchId = 0
    /\ rxLog = << >>
    /\ pendingMessages = << >>
    /\ nextSerial = 1
    /\ pendingDeliveries = 0
    /\ scripts = << >>
    /\ peerConnection = 0
    /\ peerOptions = 0
    /\ scriptState = [s \in ScriptIds |-> "absent"]
    /\ scriptSession = [s \in ScriptIds |-> NoSession]
    /\ creating = {}
    /\ unloading = {}
    /\ hostConnectionRequest = "resolved"
    /\ linkGen = 1
    /\ openLinks = {1}
    /\ clientCalls = [c \in CallIds |-> [kind |-> "none", pc |-> "idle", gen |-> 0]]
    /\ sessions = {"s"}
    /\ inflight = << >>
    /\ resumes = [k \in ResumeIds |->
                    [pc |-> "idle", gen |-> 0, handle |-> NoSession, rx |-> 0, setup |-> 0,
                     live |-> FALSE, before |-> <<NoSession, NoSession>>]]
    /\ setups = [p \in SetupIds |->
                    [pc |-> "idle", server |-> NoSession, ready |-> "pending", open |-> "none",
                     migrating |-> FALSE, peer |-> NoSession, caller |-> 0,
                     before |-> NoSession]]
    /\ closing = 0
    /\ peerState = [p \in SetupIds |-> "none"]
    /\ remoteGone = FALSE
    /\ nextProxy = 2
    /\ posted = 0
    /\ remoteRx = << >>
    /\ events = << >>
    /\ ownedAtDestroy = {}
    /\ returns = {}
    /\ signals = 0
    /\ sessionState = "starting"
    /\ gatheringState = "gathering"
    /\ pending = << >>
    /\ timer = FALSE
    /\ timers = 0
    /\ emitted = << >>
    /\ added = 0
    /\ gatherings = 0
    /\ isDestroyed = FALSE
    /\ listening = TRUE
    /\ pendingRequests = {}
    /\ nextRequestId = 1
    /\ destroyedListeners = {}
    /\ requestOutcome = [id \in RequestIds |-> "none"]
    /\ completions = [id \in RequestIds |-> 0]
    /\ inbound = << >>
    /\ received = << >>
    /\ logged = << >>

\* ------------------------------------------------------------- delivery
\* Session._postToAgent
PostToAgent(size) ==
    /\ posted < MaxPosts
    /\ IF state = "detached"
       THEN UNCHANGED deliveryVars
       ELSE LET pushed == Append(pendingMessages,
                                 [serial |-> nextSerial, deliveryAttempts |-> 0,
                                  uid |-> posted + 1, size |-> size])
                d == MaybeDeliverPendingMessages(state, pushed, pendingDeliveries,
                                                 inflight, activeSession)
            IN /\ nextSerial' = nextSerial + 1
               /\ pendingMessages' = d.queue
               /\ pendingDeliveries' = d.deliveries
               /\ inflight' = d.calls
               /\ posted' = posted + 1
               /\ UNCHANGED remoteRx
    /\ UNCHANGED <<handleVars, destroyVars, scriptCallVars, linkVars, otherVars,
                   resumes, setups, peerOptions, componentVars>>

Uids(messages) == [i \in 1 .. Len(messages) |-> messages[i].uid]

\* a receiver that deduplicates: a message it has seen is not taken again
RECURSIVE Deduplicated(_, _)
Deduplicated(seen, uids) ==
    IF uids = << >> THEN seen
    ELSE Deduplicated(IF \E j \in 1 .. Len(seen) : seen[j] = Head(uids)
                      THEN seen ELSE Append(seen, Head(uids)),
                      Tail(uids))

\* the remote side takes the batch of a postMessages call
BatchArrives(i) ==
    /\ ~inflight[i].arrived
    /\ Oldest(i)
    /\ Alive(inflight[i].handle)
    /\ inflight[i].live
    /\ inflight' = [inflight EXCEPT ![i].arrived = TRUE]
    /\ remoteRx' = Deduplicated(remoteRx, Uids(inflight[i].messages))
    /\ UNCHANGED <<pendingMessages, nextSerial, pendingDeliveries, posted>>
    /\ UNCHANGED <<handleVars, destroyVars, scriptCallVars, linkVars, otherVars,
                   resumes, setups, peerOptions, componentVars>>

\* Session._deliverBatch after the await, postMessages resolved
\* (for _emitBatch the reply is dropped)
DeliverBatchResolved(i) ==
    /\ inflight[i].arrived
    /\ Oldest(i)
    /\ Alive(inflight[i].handle)
    /\ inflight' = Remove(inflight, i)
    /\ IF inflight[i].persistent
       THEN /\ pendingDeliveries' = pendingDeliveries - 1
            /\ nextSerial' = IF pendingDeliveries - 1 = 0 THEN 1 ELSE nextSerial
       ELSE UNCHANGED <<pendingDeliveries, nextSerial>>
    /\ UNCHANGED <<pendingMessages, posted, remoteRx>>
    /\ UNCHANGED <<handleVars, destroyVars, scriptCallVars, linkVars, otherVars,
                   resumes, setups, peerOptions, componentVars>>

\* Session._deliverBatch after the await, postMessages rejected: the remote side
\* refused the call, or the transport of the proxy is gone
DeliverBatchRejected(i) ==
    /\ \/ ~inflight[i].arrived /\ Oldest(i)
       \/ ~Alive(inflight[i].handle)
    /\ inflight' = Remove(inflight, i)
    /\ IF inflight[i].persistent
       THEN /\ pendingMessages' = SortBySerial(pendingMessages \o inflight[i].messages)
            /\ pendingDeliveries' = pendingDeliveries - 1
       ELSE UNCHANGED <<pendingMessages, pendingDeliveries>>
    /\ UNCHANGED <<nextSerial, posted, remoteRx>>
    /\ UNCHANGED <<handleVars, destroyVars, scriptCallVars, linkVars, otherVars,
                   resumes, setups, peerOptions, componentVars>>

\* what the messages of an inbound batch are for: 0 for a batch without a
\* message of the kind Script, otherwise the script id its messages carry, which
\* may be one no script of the registry has
BatchTargets == 0 .. MaxScripts + 1

\* _dispatchMessages recording the batch id only of a batch it dispatched from
DispatchMessagesRecordingDispatched(batchId, target) ==
    /\ Len(rxLog) < MaxBatches
    /\ LET known == target \in Range(scripts)
       IN /\ lastRxBatchId' = IF known THEN batchId ELSE lastRxBatchId
          /\ events' = IF known THEN Append(events, Ev("script.message", target, NoCrash))
                       ELSE events
          /\ rxLog' = Append(rxLog, [batchId |-> batchId, dispatched |-> known, state |-> state])
    /\ UNCHANGED <<state, scripts, scriptState, closing, sessions, ownedAtDestroy,
                   peerConnection, peerState>>
    /\ UNCHANGED <<persistTimeout, remoteGone, returns, signals>>
    /\ UNCHANGED <<deliveryVars, handleVars, scriptCallVars, linkVars,
                   resumes, setups, peerOptions, componentVars>>

\* Session._dispatchMessages, called by the AgentMessageSink with a batch
DispatchMessages(batchId, target) ==
    /\ Len(rxLog) < MaxBatches
    /\ lastRxBatchId' = batchId
    /\ LET known == target \in Range(scripts)
       IN /\ events' = IF known THEN Append(events, Ev("script.message", target, NoCrash))
                       ELSE events
          /\ rxLog' = Append(rxLog, [batchId |-> batchId, dispatched |-> known, state |-> state])
    /\ UNCHANGED <<state, scripts, scriptState, closing, sessions, ownedAtDestroy,
                   peerConnection, peerState>>
    /\ UNCHANGED <<persistTimeout, remoteGone, returns, signals>>
    /\ UNCHANGED <<deliveryVars, handleVars, scriptCallVars, linkVars,
                   resumes, setups, peerOptions, componentVars>>

\* ------------------------------------------------------------ lifecycle
\* Session._destroy: Script._destroy of every script of the registry (with the
\* onScriptDestroyed handler of Session.createScript), the synchronous part of
\* _closeSessionAndPeerConnection, the two notifications, and the "destroyed"
\* handler of Client.attach
DestroyFrom(reason, crash, connection, peers) ==
    IF state = "detached"
    THEN /\ peerConnection' = connection
         /\ peerState' = peers
         /\ UNCHANGED <<state, scripts, scriptState, closing, sessions, events, ownedAtDestroy>>
    ELSE LET owned == {s \in Range(scripts) : scriptState[s] = "created"}
             closeNow == reason # ApplicationRequested /\ connection # 0
         IN /\ state' = "detached"
            /\ scriptState' = [s \in ScriptIds |-> IF s \in owned THEN "destroyed" ELSE scriptState[s]]
            /\ scripts' = Without(scripts, owned)
            /\ closing' = IF reason = ApplicationRequested THEN closing + 1 ELSE closing
            /\ peerConnection' = IF reason = ApplicationRequested THEN connection ELSE 0
            /\ peerState' = IF closeNow THEN [peers EXCEPT ![connection] = "closed"] ELSE peers
            /\ events' = events \o DestroyEvents(scripts, scriptState)
                                \o (IF closeNow THEN <<Ev("peer.closed", connection, NoCrash)>>
                                    ELSE << >>)
                                \o <<Ev("detached", reason, crash), Ev("destroyed", 0, NoCrash)>>
            /\ sessions' = sessions \ {"s"}
            /\ ownedAtDestroy' = Range(scripts)

Destroy(reason, crash) == DestroyFrom(reason, crash, peerConnection, peerState)

\* _onDetached without the test of persistTimeout
OnDetachedWhateverPersistTimeout(reason, crash) ==
    IF reason = ConnectionTerminated
    THEN IF state # "attached"
         THEN UNCHANGED destroyVars
         ELSE /\ state' = "interrupted"
              /\ events' = Append(events, Ev("detached", reason, NoCrash))
              /\ UNCHANGED <<scripts, scriptState, closing, sessions, ownedAtDestroy,
                             peerConnection, peerState>>
    ELSE Destroy(reason, crash)

\* Session._onDetached
OnDetached(reason, crash) ==
    IF persistTimeout # 0 /\ reason = ConnectionTerminated
    THEN IF state # "attached"
         THEN UNCHANGED destroyVars
         ELSE /\ state' = "interrupted"
              /\ events' = Append(events, Ev("detached", reason, NoCrash))
              /\ UNCHANGED <<scripts, scriptState, closing, sessions, ownedAtDestroy,
                             peerConnection, peerState>>
    ELSE Destroy(reason, crash)

\* Session.detach
Detach ==
    /\ Destroy(ApplicationRequested, NoCrash)
    /\ remoteGone' = (remoteGone \/ (state # "detached" /\ Alive(activeSession)))
    /\ UNCHANGED <<persistTimeout, lastRxBatchId, rxLog, returns, signals>>
    /\ UNCHANGED <<deliveryVars, handleVars, scriptCallVars, linkVars,
                   resumes, setups, peerOptions, componentVars>>

\* Session._closeSessionAndPeerConnection after the await of close(), whose
\* failure is swallowed
CloseSettled ==
    /\ closing > 0
    /\ closing' = closing - 1
    /\ peerConnection' = 0
    /\ IF peerConnection # 0
       THEN /\ peerState' = [peerState EXCEPT ![peerConnection] = "closed"]
            /\ events' = Append(events, Ev("peer.closed", peerConnection, NoCrash))
       ELSE UNCHANGED <<peerState, events>>
    /\ UNCHANGED <<state, scripts, scriptState, sessions, ownedAtDestroy>>
    /\ UNCHANGED <<deliveryVars, handleVars, scriptCallVars, linkVars, otherVars,
                   resumes, setups, peerOptions, componentVars>>

\* the "close" handler of the link, Client._doGetHostConnection
LinkLost ==
    /\ \E link \in openLinks : openLinks' = openLinks \ {link}
    /\ hostConnectionRequest' = "null"
    /\ IF "s" \in sessions
       THEN OnDetached(ConnectionTerminated, NoCrash)
       ELSE UNCHANGED destroyVars
    /\ UNCHANGED <<deliveryVars, handleVars, scriptCallVars, linkGen, clientCalls, otherVars,
                   resumes, setups, peerOptions, componentVars>>

\* the raw crash payload made a Crash without the test of its pid
CrashOfAnyPid(rawCrash) == rawCrash

\* the raw crash payload dropped
CrashOfNone(rawCrash) == NoCrash

\* the Crash | null made of a raw crash payload, Client._onAgentSessionDetached
CrashOf(rawCrash) == IF rawCrash[1] # 0 THEN rawCrash ELSE NoCrash

\* _onAgentSessionDetached handing every signal to the session, whatever its id
OnAgentSessionDetachedUnrouted(id, reason, rawCrash) ==
    /\ hostConnectionRequest = "resolved"
    /\ signals < MaxSignals
    /\ signals' = signals + 1
    /\ OnDetached(reason, CrashOf(rawCrash))
    /\ IF id = "s" /\ reason # ConnectionTerminated
       THEN /\ remoteGone' = TRUE
            /\ resumes' = [k \in ResumeIds |-> [resumes[k] EXCEPT !.live = FALSE]]
            /\ inflight' = [i \in 1 .. Len(inflight) |-> [inflight[i] EXCEPT !.live = FALSE]]
       ELSE UNCHANGED <<remoteGone, resumes, inflight>>
    /\ UNCHANGED <<persistTimeout, lastRxBatchId, rxLog, returns>>
    /\ UNCHANGED <<pendingMessages, nextSerial, pendingDeliveries, posted, remoteRx>>
    /\ UNCHANGED <<handleVars, scriptCallVars, linkVars, setups, peerOptions, componentVars>>

\* Client._onAgentSessionDetached
OnAgentSessionDetached(id, reason, rawCrash) ==
    /\ hostConnectionRequest = "resolved"
    /\ signals < MaxSignals
    /\ signals' = signals + 1
    /\ IF id \notin sessions
       THEN UNCHANGED destroyVars
       ELSE OnDetached(reason, CrashOf(rawCrash))
    /\ IF id = "s" /\ reason # ConnectionTerminated
       THEN /\ remoteGone' = TRUE
            /\ resumes' = [k \in ResumeIds |-> [resumes[k] EXCEPT !.live = FALSE]]
            /\ inflight' = [i \in 1 .. Len(inflight) |-> [inflight[i] EXCEPT !.live = FALSE]]
       ELSE UNCHANGED <<remoteGone, resumes, inflight>>
    /\ UNCHANGED <<persistTimeout, lastRxBatchId, rxLog, returns>>
    /\ UNCHANGED <<pendingMessages, nextSerial, pendingDeliveries, posted, remoteRx>>
    /\ UNCHANGED <<handleVars, scriptCallVars, linkVars, setups, peerOptions, componentVars>>

\* -------------------------------------------------------------- scripts
\* Session.createScript up to the await
CreateScript ==
    /\ \E s \in ScriptIds : scriptState[s] = "absent"
    /\ LET s == CHOOSE x \in ScriptIds :
                    scriptState[x] = "absent" /\ \A y \in ScriptIds : scriptState[y] = "absent" => x <= y
       IN /\ scriptState' = [scriptState EXCEPT ![s] = "creating"]
          /\ creating' = creating \cup {[id |-> s, handle |-> activeSession]}
    /\ UNCHANGED <<state, scripts, closing, sessions, events, ownedAtDestroy,
                   peerConnection, peerState>>
    /\ UNCHANGED <<scriptSession, unloading>>
    /\ UNCHANGED <<deliveryVars, handleVars, linkVars, otherVars, resumes, setups, peerOptions, componentVars>>

\* Session.createScript after the await
CreateScriptResolved(c) ==
    /\ c \in creating
    /\ Alive(c.handle)
    /\ creating' = creating \ {c}
    /\ scriptState' = [scriptState EXCEPT ![c.id] = "created"]
    /\ scriptSession' = [scriptSession EXCEPT ![c.id] = activeSession]
    /\ scripts' = IF c.id \in Range(scripts) THEN scripts ELSE Append(scripts, c.id)
    /\ UNCHANGED <<state, closing, sessions, events, ownedAtDestroy, peerConnection, peerState>>
    /\ UNCHANGED unloading
    /\ UNCHANGED <<deliveryVars, handleVars, linkVars, otherVars, resumes, setups, peerOptions, componentVars>>

CreateScriptRejected(c) ==
    /\ c \in creating
    /\ creating' = creating \ {c}
    /\ scriptState' = [scriptState EXCEPT ![c.id] = "absent"]
    /\ UNCHANGED <<state, scripts, closing, sessions, events, ownedAtDestroy,
                   peerConnection, peerState>>
    /\ UNCHANGED <<scriptSession, unloading>>
    /\ UNCHANGED <<deliveryVars, handleVars, linkVars, otherVars, resumes, setups, peerOptions, componentVars>>

\* Script.unload up to the await
Unload(s) ==
    /\ scriptState[s] \in {"created", "destroyed"}
    /\ s \notin unloading
    /\ unloading' = unloading \cup {s}
    /\ UNCHANGED <<scriptSession, creating>>
    /\ UNCHANGED <<deliveryVars, handleVars, destroyVars, linkVars, otherVars,
                   resumes, setups, peerOptions, componentVars>>

\* Script._destroy without the test of the script's state
ScriptDestroyUnguarded(s) ==
    /\ scriptState' = [scriptState EXCEPT ![s] = "destroyed"]
    /\ events' = Append(events, Ev("script.destroyed", s, NoCrash))
    /\ scripts' = Without(scripts, {s})

\* Script._destroy, with the onScriptDestroyed handler of Session.createScript
ScriptDestroy(s) ==
    IF scriptState[s] = "destroyed"
    THEN UNCHANGED <<scriptState, scripts, events>>
    ELSE /\ scriptState' = [scriptState EXCEPT ![s] = "destroyed"]
         /\ events' = Append(events, Ev("script.destroyed", s, NoCrash))
         /\ scripts' = Without(scripts, {s})

\* Script.unload after the await
UnloadResolved(s) ==
    /\ s \in unloading
    /\ Alive(scriptSession[s])
    /\ unloading' = unloading \ {s}
    /\ ScriptDestroy(s)
    /\ UNCHANGED <<state, closing, sessions, ownedAtDestroy, peerConnection, peerState>>
    /\ UNCHANGED <<scriptSession, creating>>
    /\ UNCHANGED <<deliveryVars, handleVars, linkVars, otherVars, resumes, setups, peerOptions, componentVars>>

UnloadRejected(s) ==
    /\ s \in unloading
    /\ unloading' = unloading \ {s}
    /\ UNCHANGED <<scriptSession, creating>>
    /\ UNCHANGED <<deliveryVars, handleVars, destroyVars, linkVars, otherVars,
                   resumes, setups, peerOptions, componentVars>>

\* Script.post: the record goes to postMessages of the proxy the script was
\* constructed with, batch id 0, the reply dropped
ScriptPost(s, size) ==
    /\ posted < MaxPosts
    /\ scriptState[s] \in {"created", "destroyed"}
    /\ inflight' = Append(inflight,
                          [messages |-> <<[serial |-> 0, deliveryAttempts |-> 0,
                                           uid |-> posted + 1, size |-> size]>>,
                           batchId |-> 0, handle |-> scriptSession[s], persistent |-> FALSE,
                           arrived |-> FALSE, live |-> ~remoteGone])
    /\ posted' = posted + 1
    /\ UNCHANGED <<pendingMessages, nextSerial, pendingDeliveries, remoteRx>>
    /\ UNCHANGED <<handleVars, destroyVars, scriptCallVars, linkVars, otherVars,
                   resumes, setups, peerOptions, componentVars>>

\* --------------------------------------------------------------- Client
\* _getHostConnection without the memoized request: a link for every call
GetHostConnectionUnmemoized ==
    [request |-> "pending", gen |-> linkGen + 1, links |-> openLinks \cup {linkGen + 1}]

\* Client._getHostConnection: the memoized request, a new link (a WebSocket of
\* _doGetHostConnection) when there is none
GetHostConnection ==
    IF hostConnectionRequest = "null"
    THEN [request |-> "pending", gen |-> linkGen + 1, links |-> openLinks \cup {linkGen + 1}]
    ELSE [request |-> hostConnectionRequest, gen |-> linkGen, links |-> openLinks]

\* Client._doGetHostConnection after the await of getProxyObject
ConnectionEstablished ==
    /\ hostConnectionRequest = "pending"
    /\ hostConnectionRequest' = "resolved"
    /\ UNCHANGED <<deliveryVars, handleVars, destroyVars, scriptCallVars, linkGen, openLinks,
                   clientCalls, otherVars, resumes, setups, peerOptions, componentVars>>

ConnectionFailed ==
    /\ hostConnectionRequest = "pending"
    /\ hostConnectionRequest' = "rejected"
    /\ UNCHANGED <<deliveryVars, handleVars, destroyVars, scriptCallVars, linkGen, openLinks,
                   clientCalls, otherVars, resumes, setups, peerOptions, componentVars>>

\* Client.enumerateProcesses and Client.attach up to the await of
\* _getHostConnection
ClientCall(c, kind) ==
    /\ clientCalls[c].pc = "idle"
    /\ \A j \in 1 .. c - 1 : clientCalls[j].pc # "idle"
    /\ LET h == GetHostConnection
       IN /\ hostConnectionRequest' = h.request
          /\ linkGen' = h.gen
          /\ openLinks' = h.links
          /\ clientCalls' = [clientCalls EXCEPT ![c] = [kind |-> kind, pc |-> "connection",
                                                        gen |-> h.gen]]
    /\ UNCHANGED <<deliveryVars, handleVars, destroyVars, scriptCallVars, otherVars,
                   resumes, setups, peerOptions, componentVars>>

\* the connection is there: HostSession.enumerateProcesses or HostSession.attach
\* is called
ClientCallConnected(c) ==
    /\ clientCalls[c].pc = "connection"
    /\ LinkUp(clientCalls[c].gen)
    /\ clientCalls' = [clientCalls EXCEPT ![c].pc = clientCalls[c].kind, ![c].kind = "none"]
    /\ UNCHANGED <<hostConnectionRequest, linkGen, openLinks>>
    /\ UNCHANGED <<deliveryVars, handleVars, destroyVars, scriptCallVars, otherVars,
                   resumes, setups, peerOptions, componentVars>>

\* the connection request was rejected
ClientCallNotConnected(c) ==
    /\ clientCalls[c].pc = "connection"
    /\ ~(clientCalls[c].gen = linkGen /\ hostConnectionRequest \in {"pending", "resolved"})
    /\ clientCalls' = [clientCalls EXCEPT ![c] = [kind |-> "none", pc |-> "failed", gen |-> 0]]
    /\ UNCHANGED <<hostConnectionRequest, linkGen, openLinks>>
    /\ UNCHANGED <<deliveryVars, handleVars, destroyVars, scriptCallVars, otherVars,
                   resumes, setups, peerOptions, componentVars>>

\* a remote call of the operation is answered: enumerateProcesses returns the
\* processes; attach goes on to _linkAgentSession, then returns a new Session,
\* another object than the one followed here
ClientCallResolved(c) ==
    /\ clientCalls[c].pc \in {"enumerateProcesses", "attach", "link"}
    /\ LinkUp(clientCalls[c].gen)
    /\ clientCalls' = IF clientCalls[c].pc = "attach"
                      THEN [clientCalls EXCEPT ![c].pc = "link"]
                      ELSE [clientCalls EXCEPT ![c] = [kind |-> "none", pc |-> "returned",
                                                       gen |-> 0]]
    /\ UNCHANGED <<hostConnectionRequest, linkGen, openLinks>>
    /\ UNCHANGED <<deliveryVars, handleVars, destroyVars, scriptCallVars, otherVars,
                   resumes, setups, peerOptions, componentVars>>

\* a remote call of the operation fails
ClientCallRejected(c) ==
    /\ clientCalls[c].pc \in {"enumerateProcesses", "attach", "link"}
    /\ clientCalls' = [clientCalls EXCEPT ![c] = [kind |-> "none", pc |-> "failed", gen |-> 0]]
    /\ UNCHANGED <<hostConnectionRequest, linkGen, openLinks>>
    /\ UNCHANGED <<deliveryVars, handleVars, destroyVars, scriptCallVars, otherVars,
                   resumes, setups, peerOptions, componentVars>>

\* ------------------------------------------------- setupPeerConnection
\* Session.setupPeerConnection up to the first await: the proxy it captures
\* and the peer connection it creates
Started(su, p, caller, server) ==
    [su EXCEPT ![p] = [pc |-> "offer", server |-> server, ready |-> "pending", open |-> "none",
                       migrating |-> FALSE, peer |-> NoSession, caller |-> caller,
                       before |-> NoSession]]

FreeSetup(p) ==
    /\ setups[p].pc = "idle"
    /\ \A j \in 1 .. p - 1 : setups[j].pc # "idle"

\* the locals of a setupPeerConnection call are gone once nothing of it can run
\* any more: its promise is settled (the caller has gone on) and its onopen
\* handler is over or can never be called
Tidy(su) ==
    [p \in SetupIds |->
        IF su[p].pc = "failed" \/ (su[p].ready # "pending" /\ su[p].open = "finished")
        THEN [su[p] EXCEPT !.server = NoSession, !.peer = NoSession, !.migrating = FALSE,
                           !.caller = 0, !.before = NoSession]
        ELSE IF su[p].ready # "pending" THEN [su[p] EXCEPT !.caller = 0]
        ELSE su[p]]

\* onReady / onError of setupPeerConnection settle its promise once; the caller
\* awaiting it goes on: resume() calls AgentSession.resume(_lastRxBatchId) on the
\* active proxy, or rejects
Completed(su, rs, p, outcome, active) ==
    IF su[p].ready # "pending"
    THEN [setups |-> Tidy(su), resumes |-> rs]
    ELSE LET k == su[p].caller
         IN [setups |-> Tidy([su EXCEPT ![p].ready = outcome, ![p].pc = outcome]),
             resumes |-> IF k = 0 THEN rs
                         ELSE IF outcome = "resolved"
                         THEN [rs EXCEPT ![k].pc = "resume", ![k].handle = active,
                                         ![k].rx = lastRxBatchId, ![k].live = ~remoteGone]
                         ELSE [rs EXCEPT ![k] = [pc |-> "failed", gen |-> 0, handle |-> NoSession,
                                                 rx |-> 0, setup |-> p, live |-> FALSE,
                                                 before |-> <<NoSession, NoSession>>]]]

\* the offer/answer exchange is over and the "ready" promise is awaited
Signaled(p) == setups[p].pc \in {"ready", "resolved", "rejected"}

\* --------------------------------------------------------------- resume
\* resume() returns or throws: its locals are gone, its outcome stays
Settle(k, outcome) ==
    [resumes EXCEPT ![k] = [pc |-> outcome, gen |-> 0, handle |-> NoSession, rx |-> 0,
                            setup |-> 0, live |-> FALSE, before |-> <<NoSession, NoSession>>]]

\* resume() without the "detached" case of its switch
ResumeWithoutGoneCase(k) ==
    /\ resumes[k].pc = "idle"
    /\ \A j \in 1 .. k - 1 : resumes[j].pc # "idle"
    /\ IF state = "attached"
       THEN /\ returns' = returns \cup {"returned"}
            /\ UNCHANGED <<resumes, linkVars>>
       ELSE LET c == GetHostConnection
            IN /\ hostConnectionRequest' = c.request
               /\ linkGen' = c.gen
               /\ openLinks' = c.links
               /\ UNCHANGED clientCalls
               /\ resumes' = [resumes EXCEPT ![k].pc = "connection", ![k].gen = c.gen,
                                                ![k].before = <<activeSession, obsoleteSession>>]
               /\ UNCHANGED returns
    /\ UNCHANGED <<persistTimeout, lastRxBatchId, rxLog, remoteGone, signals>>
    /\ UNCHANGED <<deliveryVars, handleVars, destroyVars, scriptCallVars, setups, peerOptions, componentVars>>

\* Session.resume up to the first await: invocation k suspends there, or the
\* call is over at once and its outcome is what the caller sees
Resume(k) ==
    /\ resumes[k].pc = "idle"
    /\ \A j \in 1 .. k - 1 : resumes[j].pc # "idle"
    /\ CASE state = "attached" ->
              /\ returns' = returns \cup {"returned"}
              /\ UNCHANGED <<resumes, linkVars>>
         [] state = "detached" ->
              /\ returns' = returns \cup {"session is gone"}
              /\ UNCHANGED <<resumes, linkVars>>
         [] state = "interrupted" ->
              LET c == GetHostConnection
              IN /\ hostConnectionRequest' = c.request
                 /\ linkGen' = c.gen
                 /\ openLinks' = c.links
                 /\ UNCHANGED clientCalls
                 /\ resumes' = [resumes EXCEPT ![k].pc = "connection", ![k].gen = c.gen,
                                                ![k].before = <<activeSession, obsoleteSession>>]
                 /\ UNCHANGED returns
    /\ UNCHANGED <<persistTimeout, lastRxBatchId, rxLog, remoteGone, signals>>
    /\ UNCHANGED <<deliveryVars, handleVars, destroyVars, scriptCallVars, setups, peerOptions, componentVars>>

\* the await of _getHostConnection() is over
ResumeConnected(k) ==
    /\ resumes[k].pc = "connection"
    /\ LinkUp(resumes[k].gen)
    /\ resumes' = [resumes EXCEPT ![k].pc = "reattach", ![k].live = ~remoteGone]
    /\ UNCHANGED <<deliveryVars, handleVars, destroyVars, scriptCallVars, linkVars, otherVars,
                   setups, peerOptions, componentVars>>

ResumeNotConnected(k) ==
    /\ resumes[k].pc = "connection"
    /\ ~(resumes[k].gen = linkGen /\ hostConnectionRequest \in {"pending", "resolved"})
    /\ resumes' = Settle(k, "failed")
    /\ UNCHANGED <<deliveryVars, handleVars, destroyVars, scriptCallVars, linkVars, otherVars,
                   setups, peerOptions, componentVars>>

\* the await of connection.session.reattach(rawId) is over
ReattachResolved(k) ==
    /\ resumes[k].pc = "reattach"
    /\ LinkUp(resumes[k].gen)
    /\ resumes[k].live
    /\ resumes' = [resumes EXCEPT ![k].pc = "link"]
    /\ UNCHANGED <<deliveryVars, handleVars, destroyVars, scriptCallVars, linkVars, otherVars,
                   setups, peerOptions, componentVars>>

\* a failing remote call of resume() that would go on to line 95
ResumeCallRejectedAttaching(k) ==
    /\ resumes[k].pc \in {"reattach", "link", "resume"}
    /\ resumes' = Settle(k, "failed")
    /\ state' = "attached"
    /\ UNCHANGED <<scripts, scriptState, closing, sessions, events, ownedAtDestroy,
                   peerConnection, peerState>>
    /\ UNCHANGED <<deliveryVars, handleVars, scriptCallVars, linkVars, otherVars,
                   setups, peerOptions, componentVars>>

\* a remote call of resume() fails: reattach, _linkAgentSession or AgentSession.resume
ResumeCallRejected(k) ==
    /\ resumes[k].pc \in {"reattach", "link", "resume"}
    /\ resumes' = Settle(k, "failed")
    /\ UNCHANGED <<deliveryVars, handleVars, destroyVars, scriptCallVars, linkVars, otherVars,
                   setups, peerOptions, componentVars>>

\* the await of _linkAgentSession is over: _beginMigration, then either
\* setupPeerConnection(_peerOptions) or the call of AgentSession.resume
LinkAgentSessionResolved(k) ==
    /\ resumes[k].pc = "link"
    /\ LinkUp(resumes[k].gen)
    /\ LET agentSession == <<"relay", resumes[k].gen, nextProxy>>
       IN /\ obsoleteSession' = activeSession
          /\ activeSession' = agentSession
          /\ IF peerOptions # 0
             THEN \E p \in SetupIds :
                    /\ FreeSetup(p)
                    /\ setups' = Started(setups, p, k, agentSession)
                    /\ peerState' = [peerState EXCEPT ![p] = "up"]
                    /\ resumes' = [resumes EXCEPT ![k].pc = "setup", ![k].setup = p]
             ELSE /\ resumes' = [resumes EXCEPT ![k].pc = "resume", ![k].handle = agentSession,
                                                ![k].rx = lastRxBatchId,
                                                ![k].live = ~remoteGone]
                  /\ UNCHANGED <<setups, peerState>>
    /\ nextProxy' = nextProxy + 1
    /\ UNCHANGED <<state, scripts, scriptState, closing, sessions, events, ownedAtDestroy,
                   peerConnection>>
    /\ UNCHANGED <<deliveryVars, scriptCallVars, linkVars, otherVars, peerOptions, componentVars>>

\* the purge loop of Session.resume
RECURSIVE Purge(_, _)
Purge(q, lastTxBatchId) ==
    IF q # << >> /\ Head(q).deliveryAttempts > 0 /\ Head(q).serial <= lastTxBatchId
    THEN Purge(Tail(q), lastTxBatchId)
    ELSE q

\* the await of AgentSession.resume is over: purge, Attached, delivery
ResumeResolved(k, lastTxBatchId) ==
    /\ resumes[k].pc = "resume"
    /\ Alive(resumes[k].handle)
    /\ resumes[k].live
    /\ LET purged == IF lastTxBatchId # 0 THEN Purge(pendingMessages, lastTxBatchId)
                     ELSE pendingMessages
           d == MaybeDeliverPendingMessages("attached", purged, pendingDeliveries,
                                            inflight, activeSession)
       IN /\ state' = "attached"
          /\ pendingMessages' = d.queue
          /\ pendingDeliveries' = d.deliveries
          /\ inflight' = d.calls
    /\ resumes' = Settle(k, "resolved")
    /\ UNCHANGED <<nextSerial, posted, remoteRx>>
    /\ UNCHANGED <<scripts, scriptState, closing, sessions, events, ownedAtDestroy,
                   peerConnection, peerState>>
    /\ UNCHANGED <<handleVars, scriptCallVars, linkVars, otherVars, setups, peerOptions, componentVars>>

\* ------------------------------------------------- setupPeerConnection
\* Session.setupPeerConnection called by the application
SetupPeerConnection(p) ==
    /\ FreeSetup(p)
    /\ setups' = Started(setups, p, 0, activeSession)
    /\ peerState' = [peerState EXCEPT ![p] = "up"]
    /\ UNCHANGED <<state, scripts, scriptState, closing, sessions, events, ownedAtDestroy,
                   peerConnection>>
    /\ UNCHANGED <<deliveryVars, handleVars, scriptCallVars, linkVars, otherVars,
                   resumes, peerOptions, componentVars>>

\* createOffer, setLocalDescription, offerPeerConnection and setRemoteDescription
\* are over, notifySessionStarted, then the await of "ready"
SetupSignaled(p) ==
    /\ setups[p].pc = "offer"
    /\ Alive(setups[p].server)
    /\ peerState[p] = "up"
    /\ setups' = [setups EXCEPT ![p].pc = "ready"]
    /\ UNCHANGED <<deliveryVars, handleVars, destroyVars, scriptCallVars, linkVars, otherVars,
                   resumes, peerOptions, componentVars>>

\* one of the four fails: setupPeerConnection rejects
SetupSignalingRejected(p) ==
    /\ setups[p].pc = "offer"
    /\ setups' = Tidy([setups EXCEPT ![p].pc = "failed"])
    /\ resumes' = IF setups[p].caller = 0 THEN resumes
                  ELSE [Settle(setups[p].caller, "failed") EXCEPT ![setups[p].caller].setup = p]
    /\ UNCHANGED <<deliveryVars, handleVars, destroyVars, scriptCallVars, linkVars, otherVars,
                   peerOptions, componentVars>>

\* peerChannel.onopen up to the await of getProxyObject
PeerChannelOpen(p) ==
    /\ Signaled(p)
    /\ setups[p].open = "none"
    /\ peerState[p] = "up"
    /\ setups' = [setups EXCEPT ![p].open = "proxy"]
    /\ UNCHANGED <<deliveryVars, handleVars, destroyVars, scriptCallVars, linkVars, otherVars,
                   resumes, peerOptions, componentVars>>

\* peerChannel.onopen: the peer proxy is there, serverSession.beginMigration() called
PeerProxyResolved(p) ==
    /\ setups[p].open = "proxy"
    /\ peerState[p] = "up"
    /\ setups' = [setups EXCEPT ![p].open = "begin", ![p].peer = <<"peer", p, nextProxy>>]
    /\ nextProxy' = nextProxy + 1
    /\ UNCHANGED <<activeSession, obsoleteSession>>
    /\ UNCHANGED <<deliveryVars, destroyVars, scriptCallVars, linkVars, otherVars,
                   resumes, peerOptions, componentVars>>

\* peerChannel.onopen: beginMigration() resolved, _beginMigration(peerAgentSession),
\* serverSession.commitMigration() called
PeerBeginMigrationResolved(p) ==
    /\ setups[p].open = "begin"
    /\ Alive(setups[p].server)
    /\ obsoleteSession' = activeSession
    /\ activeSession' = setups[p].peer
    /\ setups' = [setups EXCEPT ![p].open = "commit", ![p].migrating = TRUE,
                                ![p].before = activeSession]
    /\ UNCHANGED nextProxy
    /\ UNCHANGED <<deliveryVars, destroyVars, scriptCallVars, linkVars, otherVars,
                   resumes, peerOptions, componentVars>>

\* peerChannel.onopen: commitMigration() resolved, the peer connection and its
\* options are retained, onReady
PeerCommitMigrationResolved(p) ==
    /\ setups[p].open = "commit"
    /\ Alive(setups[p].server)
    /\ peerConnection' = p
    /\ peerOptions' = 1
    /\ LET c == Completed([setups EXCEPT ![p].open = "finished"], resumes, p, "resolved",
                          activeSession)
       IN /\ setups' = c.setups
          /\ resumes' = c.resumes
    /\ UNCHANGED <<state, scripts, scriptState, closing, sessions, events, ownedAtDestroy,
                   peerState>>
    /\ UNCHANGED <<deliveryVars, handleVars, scriptCallVars, linkVars, otherVars, componentVars>>

\* peerChannel.onopen, the catch block: _cancelMigration when migrating, onError
PeerOpenRejected(p) ==
    /\ setups[p].open \in {"proxy", "begin", "commit"}
    /\ IF setups[p].migrating
       THEN /\ activeSession' = obsoleteSession
            /\ obsoleteSession' = NoSession
       ELSE UNCHANGED <<activeSession, obsoleteSession>>
    /\ LET c == Completed([setups EXCEPT ![p].open = "finished"], resumes, p, "rejected",
                          activeSession)
       IN /\ setups' = c.setups
          /\ resumes' = c.resumes
    /\ UNCHANGED nextProxy
    /\ UNCHANGED <<deliveryVars, destroyVars, scriptCallVars, linkVars, otherVars, peerOptions, componentVars>>

\* peerChannel.onerror
PeerChannelError(p) ==
    /\ Signaled(p)
    /\ peerState[p] = "up"
    /\ LET c == Completed(setups, resumes, p, "rejected", activeSession)
       IN /\ setups' = c.setups
          /\ resumes' = c.resumes
    /\ UNCHANGED <<deliveryVars, handleVars, destroyVars, scriptCallVars, linkVars, otherVars,
                   peerOptions, componentVars>>

\* _handlePeerConnectionClosure without the test of the peer connection
HandlePeerConnectionClosureOfAny(p, peers) ==
    IF persistTimeout # 0
    THEN /\ peerConnection' = 0
         /\ peerState' = peers
         /\ IF state # "attached"
            THEN UNCHANGED <<state, events, activeSession, obsoleteSession>>
            ELSE /\ state' = "interrupted"
                 /\ activeSession' = obsoleteSession
                 /\ obsoleteSession' = NoSession
                 /\ events' = Append(events, Ev("detached", ConnectionTerminated, NoCrash))
         /\ UNCHANGED <<scripts, scriptState, closing, sessions, ownedAtDestroy>>
    ELSE /\ DestroyFrom(ConnectionTerminated, NoCrash, 0, peers)
         /\ UNCHANGED <<activeSession, obsoleteSession>>

\* Session._handlePeerConnectionClosure, for a peer connection that is now peers[p]
HandlePeerConnectionClosure(p, peers) ==
    IF p # peerConnection
    THEN /\ peerState' = peers
         /\ UNCHANGED <<state, scripts, scriptState, closing, sessions, events, ownedAtDestroy,
                        peerConnection, activeSession, obsoleteSession>>
    ELSE IF persistTimeout # 0
    THEN /\ peerConnection' = 0
         /\ peerState' = peers
         /\ IF state # "attached"
            THEN UNCHANGED <<state, events, activeSession, obsoleteSession>>
            ELSE /\ state' = "interrupted"
                 /\ activeSession' = obsoleteSession
                 /\ obsoleteSession' = NoSession
                 /\ events' = Append(events, Ev("detached", ConnectionTerminated, NoCrash))
         /\ UNCHANGED <<scripts, scriptState, closing, sessions, ownedAtDestroy>>
    ELSE /\ DestroyFrom(ConnectionTerminated, NoCrash, 0, peers)
         /\ UNCHANGED <<activeSession, obsoleteSession>>

\* peerConnection.oniceconnectionstatechange with the state "disconnected"
IceDisconnected(p) ==
    /\ Signaled(p)
    /\ peerState[p] = "up"
    /\ LET c == Completed(setups, resumes, p, "rejected", activeSession)
       IN /\ setups' = c.setups
          /\ resumes' = c.resumes
    /\ HandlePeerConnectionClosure(p, [peerState EXCEPT ![p] = "disconnected"])
    /\ UNCHANGED nextProxy
    /\ UNCHANGED <<deliveryVars, scriptCallVars, linkVars, otherVars, peerOptions, componentVars>>

\* ---------------------------------------------------- IceCandidateQueue
\* maybeEmitCandidates emitting a copy of the buffer, which it keeps
MaybeEmitCandidatesKeeping(started, gathering, queue, out) ==
    IF started # "started"
    THEN [pending |-> queue, gatheringState |-> gathering, emitted |-> out]
    ELSE LET flushed == IF queue # << >> THEN Append(out, <<"add", queue>>) ELSE out
         IN IF gathering = "gathered"
            THEN [pending |-> queue, gatheringState |-> "notified",
                  emitted |-> Append(flushed, <<"done", << >>>>)]
            ELSE [pending |-> queue, gatheringState |-> gathering, emitted |-> flushed]

\* IceCandidateQueue.maybeEmitCandidates: the fields and the emissions after it
MaybeEmitCandidatesUnguarded(started, gathering, queue, out) ==
    LET flushed == IF queue # << >> THEN Append(out, <<"add", queue>>) ELSE out
    IN IF gathering = "gathered"
       THEN [pending |-> << >>, gatheringState |-> "notified",
             emitted |-> Append(flushed, <<"done", << >>>>)]
       ELSE [pending |-> << >>, gatheringState |-> gathering, emitted |-> flushed]

MaybeEmitCandidates(started, gathering, queue, out) ==
    IF started # "started"
    THEN [pending |-> queue, gatheringState |-> gathering, emitted |-> out]
    ELSE LET flushed == IF queue # << >> THEN Append(out, <<"add", queue>>) ELSE out
         IN IF gathering = "gathered"
            THEN [pending |-> << >>, gatheringState |-> "notified",
                  emitted |-> Append(flushed, <<"done", << >>>>)]
            ELSE [pending |-> << >>, gatheringState |-> gathering, emitted |-> flushed]

\* IceCandidateQueue.add(candidate), the candidates numbered as they come
AddCandidate ==
    /\ added < MaxCandidates
    /\ pending' = Append(pending, added + 1)
    /\ added' = added + 1
    /\ timer' = TRUE
    /\ timers' = IF timer THEN timers ELSE timers + 1
    /\ UNCHANGED <<sessionState, gatheringState, emitted, gatherings>>
    /\ UNCHANGED <<sessionVars, serviceVars>>

\* IceCandidateQueue.add(null)
AddGatheringDone ==
    /\ gatherings < MaxGatherings
    /\ gatheringState' = "gathered"
    /\ gatherings' = gatherings + 1
    /\ timer' = TRUE
    /\ timers' = IF timer THEN timers ELSE timers + 1
    /\ UNCHANGED <<sessionState, pending, emitted, added>>
    /\ UNCHANGED <<sessionVars, serviceVars>>

\* the timer of add() expires: maybeEmitCandidates
TimerExpires ==
    /\ timer
    /\ timer' = FALSE
    /\ timers' = timers - 1
    /\ LET e == MaybeEmitCandidates(sessionState, gatheringState, pending, emitted)
       IN /\ pending' = e.pending
          /\ gatheringState' = e.gatheringState
          /\ emitted' = e.emitted
    /\ UNCHANGED <<sessionState, added, gatherings>>
    /\ UNCHANGED <<sessionVars, serviceVars>>

\* IceCandidateQueue.notifySessionStarted
NotifySessionStarted ==
    /\ sessionState' = "started"
    /\ timer' = FALSE
    /\ timers' = IF timer THEN timers - 1 ELSE timers
    /\ LET e == MaybeEmitCandidates("started", gatheringState, pending, emitted)
       IN /\ pending' = e.pending
          /\ gatheringState' = e.gatheringState
          /\ emitted' = e.emitted
    /\ UNCHANGED <<added, gatherings>>
    /\ UNCHANGED <<sessionVars, serviceVars>>

\* -------------------------------------------------------- ScriptServices
\* messages a script may be sent: replies to RPC requests, an RPC message with
\* another operation, a send whose payload is another array, a send whose payload is the bare tag, an error message
\* that carries the tag in an array, and a log message
RpcOperations == {"ok", "error"}

InboundMessages ==
    {[type |-> "send", array |-> TRUE, tag |-> "frida:rpc", id |-> id, operation |-> op] :
        id \in RequestIds, op \in RpcOperations}
    \cup {[type |-> "send", array |-> TRUE, tag |-> "frida:rpc", id |-> 1, operation |-> "other"],
          [type |-> "send", array |-> TRUE, tag |-> "other", id |-> 0, operation |-> ""],
          [type |-> "send", array |-> FALSE, tag |-> "frida:rpc", id |-> 0, operation |-> ""],
          [type |-> "error", array |-> TRUE, tag |-> "frida:rpc", id |-> 0, operation |-> ""],
          [type |-> "log", array |-> FALSE, tag |-> "other", id |-> 0, operation |-> ""]}

isRpcSendMessage(message) == message.array /\ message.tag = "frida:rpc"

isRpcMessage(message) == message.type = "send" /\ isRpcSendMessage(message)

isLogMessage(message) == message.type = "log"

\* isInternalMessage without the log messages
isInternalMessageRpcOnly(message) == isRpcMessage(message)

isInternalMessage(message) == isRpcMessage(message) \/ isLogMessage(message)

\* the closure "complete" of ScriptServices.request: which outcome the promise
\* of a request has after it is called with this result
Complete(was, result) == IF was = "pending" THEN result ELSE was

\* ScriptServices.request without the test of script.isDestroyed
RequestWithoutDestroyedTest ==
    /\ nextRequestId <= MaxRequests
    /\ nextRequestId' = nextRequestId + 1
    /\ pendingRequests' = pendingRequests \cup {nextRequestId}
    /\ destroyedListeners' = destroyedListeners \cup {nextRequestId}
    /\ requestOutcome' = [requestOutcome EXCEPT ![nextRequestId] = "pending"]
    /\ UNCHANGED <<completions, isDestroyed, listening, inbound, received, logged>>
    /\ UNCHANGED <<sessionVars, iceVars>>

\* ScriptServices.request without the entry of the table
RequestUntabled ==
    /\ nextRequestId <= MaxRequests
    /\ nextRequestId' = nextRequestId + 1
    /\ IF isDestroyed
       THEN /\ requestOutcome' = [requestOutcome EXCEPT ![nextRequestId] = "destroyed"]
            /\ completions' = [completions EXCEPT ![nextRequestId] = @ + 1]
            /\ UNCHANGED <<pendingRequests, destroyedListeners>>
       ELSE /\ destroyedListeners' = destroyedListeners \cup {nextRequestId}
            /\ requestOutcome' = [requestOutcome EXCEPT ![nextRequestId] = "pending"]
            /\ UNCHANGED <<pendingRequests, completions>>
    /\ UNCHANGED <<isDestroyed, listening, inbound, received, logged>>
    /\ UNCHANGED <<sessionVars, iceVars>>

\* ScriptServices.request: a new id, the entry of the table, the post, the
\* listener of "destroyed", and the rejection at once on a destroyed script
Request ==
    /\ nextRequestId <= MaxRequests
    /\ nextRequestId' = nextRequestId + 1
    /\ IF isDestroyed
       THEN /\ requestOutcome' = [requestOutcome EXCEPT ![nextRequestId] = "destroyed"]
            /\ completions' = [completions EXCEPT ![nextRequestId] = @ + 1]
            /\ UNCHANGED <<pendingRequests, destroyedListeners>>
       ELSE /\ pendingRequests' = pendingRequests \cup {nextRequestId}
            /\ destroyedListeners' = destroyedListeners \cup {nextRequestId}
            /\ requestOutcome' = [requestOutcome EXCEPT ![nextRequestId] = "pending"]
            /\ UNCHANGED completions
    /\ UNCHANGED <<isDestroyed, listening, inbound, received, logged>>
    /\ UNCHANGED <<sessionVars, iceVars>>

\* Script._dispatchMessage: the "message" listeners in the order they were
\* added, ScriptServices.onMessage (with onRpcMessage), then the proxy of the
\* handler connected to the script's message signal
DispatchMessage(message) ==
    /\ Len(inbound) < MaxMessages
    /\ LET n == Len(inbound) + 1
           id == message.id
           answered == /\ listening
                       /\ message.type = "send" /\ isRpcSendMessage(message)
                       /\ message.operation \in {"ok", "error"}
                       /\ id \in pendingRequests
       IN /\ inbound' = Append(inbound, [message |-> message, n |-> n, late |-> isDestroyed])
          /\ IF answered
             THEN /\ pendingRequests' = pendingRequests \ {id}
                  /\ destroyedListeners' = destroyedListeners \ {id}
                  /\ requestOutcome' = [requestOutcome EXCEPT
                                    ![id] = Complete(@, IF message.operation = "ok"
                                                        THEN "resolved" ELSE "rejected")]
                  /\ completions' = [completions EXCEPT ![id] = @ + 1]
             ELSE UNCHANGED <<pendingRequests, destroyedListeners, requestOutcome, completions>>
          /\ logged' = IF listening /\ ~isRpcMessage(message) /\ isLogMessage(message)
                       THEN Append(logged, n) ELSE logged
          /\ received' = IF ~isInternalMessage(message) THEN Append(received, n) ELSE received
    /\ UNCHANGED <<isDestroyed, listening, nextRequestId>>
    /\ UNCHANGED <<sessionVars, iceVars>>

\* Script._destroy of this script: the "destroyed" listeners, onDestroyed of the
\* services and onScriptDestroyed of every request that waits
ServicesDestroy ==
    /\ ~isDestroyed
    /\ isDestroyed' = TRUE
    /\ listening' = FALSE
    /\ requestOutcome' = [id \in RequestIds |->
                      IF id \in destroyedListeners THEN Complete(requestOutcome[id], "destroyed")
                      ELSE requestOutcome[id]]
    /\ completions' = [id \in RequestIds |->
                          IF id \in destroyedListeners THEN completions[id] + 1
                          ELSE completions[id]]
    /\ pendingRequests' = pendingRequests \ destroyedListeners
    /\ destroyedListeners' = {}
    /\ UNCHANGED <<nextRequestId, inbound, received, logged>>
    /\ UNCHANGED <<sessionVars, iceVars>>

\* ----------------------------------------------------------------- Next
\* the application posts while the session is Interrupted
PostWhileInterrupted ==
    /\ state = "interrupted"
    /\ \E size \in MessageSizes : PostToAgent(size)

\* the application calls resume() again while an invocation is suspended
ResumeWhileResuming ==
    /\ \E j \in 1 .. MaxResumes :
          resumes[j].pc \in {"connection", "reattach", "link", "setup", "resume"}
    /\ Resume(MaxResumes + 1)

\* the application posts a record larger than the cap of a batch
PostOversized == PostToAgent(maxSize + 1024 * 1024)

Delivery ==
    \/ \E size \in MessageSizes : PostToAgent(size)
    \/ \E i \in 1 .. Len(inflight) : BatchArrives(i)
    \/ \E i \in 1 .. Len(inflight) : DeliverBatchResolved(i)
    \/ \E i \in 1 .. Len(inflight) : DeliverBatchRejected(i)

Lifecycle ==
    \/ Detach
    \/ CloseSettled
    \/ LinkLost

HostSignal ==
    \E id \in SessionIds, reason \in SignalReasons, rawCrash \in RawCrashes :
        OnAgentSessionDetached(id, reason, rawCrash)

Scripts ==
    \/ CreateScript
    \/ \E c \in creating : CreateScriptResolved(c)
    \/ \E c \in creating : CreateScriptRejected(c)
    \/ \E s \in ScriptIds : Unload(s)
    \/ \E s \in ScriptIds : UnloadResolved(s)
    \/ \E s \in ScriptIds : UnloadRejected(s)

ScriptMessages ==
    \E s \in ScriptIds, size \in MessageSizes : ScriptPost(s, size)

Inbound ==
    \E batchId \in RxBatchIds, target \in BatchTargets : DispatchMessages(batchId, target)

Resumption ==
    \/ ConnectionEstablished
    \/ ConnectionFailed
    \/ \E k \in 1 .. MaxResumes : Resume(k)
    \/ \E k \in ResumeIds : ResumeConnected(k)
    \/ \E k \in ResumeIds : ResumeNotConnected(k)
    \/ \E k \in ResumeIds : ReattachResolved(k)
    \/ \E k \in ResumeIds : ResumeCallRejected(k)
    \/ \E k \in ResumeIds : LinkAgentSessionResolved(k)
    \/ \E k \in ResumeIds, lastTxBatchId \in TxBatchIds : ResumeResolved(k, lastTxBatchId)

Peer ==
    \/ \E p \in SetupIds : SetupPeerConnection(p)
    \/ \E p \in SetupIds : SetupSignaled(p)
    \/ \E p \in SetupIds : SetupSignalingRejected(p)
    \/ \E p \in SetupIds : PeerChannelOpen(p)
    \/ \E p \in SetupIds : PeerProxyResolved(p)
    \/ \E p \in SetupIds : PeerBeginMigrationResolved(p)
    \/ \E p \in SetupIds : PeerCommitMigrationResolved(p)
    \/ \E p \in SetupIds : PeerOpenRejected(p)
    \/ \E p \in SetupIds : PeerChannelError(p)
    \/ \E p \in SetupIds : IceDisconnected(p)

ClientCalls ==
    \/ \E c \in CallIds, kind \in {"enumerateProcesses", "attach"} : ClientCall(c, kind)
    \/ \E c \in CallIds : ClientCallConnected(c)
    \/ \E c \in CallIds : ClientCallNotConnected(c)
    \/ \E c \in CallIds : ClientCallResolved(c)
    \/ \E c \in CallIds : ClientCallRejected(c)

IceQueue ==
    \/ AddCandidate
    \/ AddGatheringDone
    \/ TimerExpires
    \/ NotifySessionStarted

Services ==
    \/ Request
    \/ \E message \in InboundMessages : DispatchMessage(message)
    \/ ServicesDestroy

Next ==
    \/ Delivery \/ Lifecycle \/ HostSignal \/ Scripts \/ ScriptMessages \/ Resumption \/ Peer
    \/ ClientCalls \/ IceQueue \/ Services \/ PostOversized \/ Inbound \/ ResumeWhileResuming

Spec == Init /\ [][Next]_vars

\* the outbound pipeline: posts, deliveries, interruptions and resumes
NextDelivery == Delivery \/ Lifecycle \/ Resumption

SpecDelivery == Init /\ [][NextDelivery]_vars

\* inbound batches, for the scripts of the session or not, around the
\* interruptions of the session and the resumes that succeed
NextInbound ==
    \/ Inbound
    \/ LinkLost
    \/ ConnectionEstablished
    \/ \E k \in 1 .. MaxResumes : Resume(k)
    \/ \E k \in ResumeIds : ResumeConnected(k)
    \/ \E k \in ResumeIds : ReattachResolved(k)
    \/ \E k \in ResumeIds : LinkAgentSessionResolved(k)
    \/ \E k \in ResumeIds : ResumeResolved(k, 0)
    \/ CreateScript
    \/ \E c \in creating : CreateScriptResolved(c)

SpecInbound == Init /\ [][NextInbound]_vars

\* resume() called again while it runs, on a link that may be lost again
NextReentry == LinkLost \/ Resumption \/ ResumeWhileResuming

SpecReentry == Init /\ [][NextReentry]_vars

\* posts of every size and the outcomes of their sends, on a link that stays up
NextSends == Delivery \/ PostOversized

SpecSends == Init /\ [][NextSends]_vars

\* posts of the application while peer connections are set up
NextMigration ==
    \/ \E size \in MessageSizes : PostToAgent(size)
    \/ Peer

SpecMigration == Init /\ [][NextMigration]_vars

\* the delivery passes of posts and resumes, over records of every size, with
\* sends that fail
NextBatching ==
    \/ \E size \in MessageSizes : PostToAgent(size)
    \/ PostOversized
    \/ \E i \in 1 .. Len(inflight) : DeliverBatchRejected(i)
    \/ LinkLost
    \/ Resumption

SpecBatching == Init /\ [][NextBatching]_vars

\* the session and its scripts: every way to detach, interrupt and resume
NextLifecycle == Lifecycle \/ HostSignal \/ Scripts \/ Resumption

SpecLifecycle == Init /\ [][NextLifecycle]_vars

\* the session and its scripts under the operations of the application and
\* the loss of the link
NextScripts == Lifecycle \/ Scripts \/ Resumption

\* the ways a session is destroyed, and the scripts it then owns
NextDestruction == Lifecycle \/ HostSignal \/ Scripts

SpecDestruction == Init /\ [][NextDestruction]_vars

SpecScripts == Init /\ [][NextScripts]_vars

\* the session alone: every way to detach, interrupt and resume it
NextSession == Lifecycle \/ HostSignal \/ Resumption

SpecSession == Init /\ [][NextSession]_vars

\* the session and its peer connection
NextPeer == Lifecycle \/ Resumption \/ Peer

SpecPeer == Init /\ [][NextPeer]_vars

\* delivery by a transport that answers every call: a call the remote side can
\* take is taken, a call it took is acknowledged
TransportAnswers ==
    /\ WF_vars(\E i \in 1 .. Len(inflight) : BatchArrives(i))
    /\ WF_vars(\E i \in 1 .. Len(inflight) : DeliverBatchResolved(i))

SpecDeliveryFair == Init /\ [][NextDelivery]_vars /\ TransportAnswers

\* the callers of the Client's host connection, up to the first remote call of
\* a resume, and the losses of the link
NextClient ==
    \/ ClientCalls
    \/ LinkLost
    \/ ConnectionEstablished
    \/ ConnectionFailed
    \/ \E k \in 1 .. MaxResumes : Resume(k)
    \/ \E k \in ResumeIds : ResumeConnected(k)
    \/ \E k \in ResumeIds : ResumeNotConnected(k)
    \/ \E k \in ResumeIds : ResumeCallRejected(k)

SpecClient == Init /\ [][NextClient]_vars

\* one IceCandidateQueue under every order of its calls and timer expiries
SpecIceQueue == Init /\ [][IceQueue]_vars

\* one script: its RPC requests, the messages dispatched to it, its destruction
SpecServices == Init /\ [][Services]_vars

\* scripts that post, and the session's delivery
NextScriptMessages == Delivery \/ Lifecycle \/ Scripts \/ ScriptMessages

SpecScriptMessages == Init /\ [][NextScriptMessages]_vars

\* peer connections set up by the application, on a link that may be lost
NextSetup == Lifecycle \/ Peer

SpecSetup == Init /\ [][NextSetup]_vars

\* peer connections of a session that owns scripts
NextPeerScripts == Lifecycle \/ Scripts \/ Peer

SpecPeerScripts == Init /\ [][NextPeerScripts]_vars

\* resumption of a session that may have a peer connection, with a queue
NextPeerResume == PostWhileInterrupted \/ LinkLost \/ Resumption \/ Peer

SpecPeerResume == Init /\ [][NextPeerResume]_vars

\* =============================================================== claims
EventsOf(type) == {i \in 1 .. Len(events) : events[i].type = type}
ScriptDestroyedOf(s) == {i \in EventsOf("script.destroyed") : events[i].arg = s}
UidsOf(calls) == [i \in 1 .. Len(calls) |-> Uids(calls[i].messages)]

RECURSIVE Flatten(_)
Flatten(seqs) == IF seqs = << >> THEN << >> ELSE Head(seqs) \o Flatten(Tail(seqs))

\* C1: in a persistent session the messages reach the remote side, as a
\* deduplicating receiver sees them, in post order with no gap: the k-th
\* message it takes is the k-th message posted
C1_DeliveredInPostOrder ==
    persistTimeout # 0 => \A i \in 1 .. Len(remoteRx) : remoteRx[i] = i

\* C2: Detached is terminal: no step leaves the state Detached
C2_DetachedIsTerminal == [][state = "detached" => state' = "detached"]_vars

\* message i of queue q lies in the front prefix of attempted messages whose
\* serial is at most the batch id the remote side reports
InAcknowledgedPrefix(q, i, lastTxBatchId) ==
    \A j \in 1 .. i : q[j].deliveryAttempts >= 1 /\ q[j].serial <= lastTxBatchId

\* C3: a successful resume() drops exactly the acknowledged front prefix of the
\* queue; every other message, in queue order, is in the batch the resume then
\* sends or still in the queue behind it
C3_ResumePurgesExactlyPrefix ==
    [][\A k \in ResumeIds, lastTxBatchId \in TxBatchIds :
          ResumeResolved(k, lastTxBatchId) =>
              LET kept == {i \in 1 .. Len(pendingMessages) :
                              ~InAcknowledgedPrefix(pendingMessages, i, lastTxBatchId)}
                  first == Len(pendingMessages) - Cardinality(kept) + 1
                  sent == Flatten(UidsOf(SubSeq(inflight', Len(inflight) + 1, Len(inflight'))))
              IN sent \o Uids(pendingMessages')
                     = Uids(SubSeq(pendingMessages, first, Len(pendingMessages)))]_vars

\* C4: resume() on an Attached session returns, on a Detached session fails with
\* "session is gone"; in both cases no call is started, no link is opened and
\* nothing of the session changes
C4_ResumeNoopOrGone ==
    [][\A k \in ResumeIds :
          Resume(k) /\ state # "interrupted" =>
              /\ returns' = returns \cup {IF state = "attached" THEN "returned"
                                                               ELSE "session is gone"}
              /\ UNCHANGED <<deliveryVars, handleVars, destroyVars, scriptCallVars, linkVars,
                             persistTimeout, lastRxBatchId, remoteGone, signals, resumes,
                             setups,
                             peerOptions>>]_vars

C4_Witness == returns = {"returned", "session is gone"}

\* C5: a link loss while a persistent session is Attached makes it Interrupted,
\* keeps its scripts, their registry and the pending queue, and emits exactly
\* one detached(connection-terminated, null)
C5_LinkLossInterrupts ==
    [][LinkLost /\ persistTimeout # 0 /\ state = "attached" =>
          /\ state' = "interrupted"
          /\ scripts' = scripts
          /\ scriptState' = scriptState
          /\ pendingMessages' = pendingMessages
          /\ events' = Append(events, Ev("detached", ConnectionTerminated, NoCrash))]_vars

\* C6: a non-persistent session is never Interrupted, and a link loss while it
\* is Attached makes it Detached, emits detached(connection-terminated, null)
\* and the destroyed notification of every script of its registry
C6_LinkLossDestroysNonPersistent ==
    [][persistTimeout = 0 =>
          /\ state' # "interrupted"
          /\ LinkLost /\ state = "attached" =>
                /\ state' = "detached"
                /\ \E i \in 1 .. Len(events') :
                      /\ i > Len(events)
                      /\ events'[i] = Ev("detached", ConnectionTerminated, NoCrash)
                /\ \A s \in Range(scripts) :
                      /\ scriptState'[s] = "destroyed"
                      /\ \E i \in 1 .. Len(events') :
                            /\ i > Len(events)
                            /\ events'[i] = Ev("script.destroyed", s, NoCrash)]_vars

C6_Witness ==
    /\ persistTimeout = 0
    /\ state = "detached"
    /\ hostConnectionRequest = "null"
    /\ ownedAtDestroy # {}
    /\ \E i \in 1 .. Len(events) : events[i] = Ev("detached", ConnectionTerminated, NoCrash)

\* C7 as claimed: a session-detached signal for the session makes it Interrupted
\* when it is persistent, Attached and the reason is connection-terminated, and
\* Detached in every other case
C7_SignalDetachesOtherwise ==
    [][\A reason \in SignalReasons, rawCrash \in RawCrashes :
          OnAgentSessionDetached("s", reason, rawCrash) =>
              IF persistTimeout # 0 /\ reason = ConnectionTerminated /\ state = "attached"
              THEN state' = "interrupted"
              ELSE state' = "detached"]_vars

\* C7 as amended: a signal for a session of the registry makes it Interrupted
\* (emitting detached(connection-terminated, null)) when it is persistent,
\* Attached and the reason is connection-terminated; changes nothing when it is
\* persistent, not Attached and the reason is connection-terminated; and in
\* every other case makes it Detached, the detached notification carrying the
\* reason and the crash of the signal; a signal for a session that is not in
\* the registry changes nothing
C7_SignalAmended ==
    [][\A id \in SessionIds, reason \in SignalReasons, rawCrash \in RawCrashes :
          OnAgentSessionDetached(id, reason, rawCrash) =>
              IF id \notin sessions
              THEN UNCHANGED <<state, events, scripts, scriptState, sessions>>
              ELSE IF persistTimeout # 0 /\ reason = ConnectionTerminated
              THEN IF state = "attached"
                   THEN /\ state' = "interrupted"
                        /\ events' = Append(events, Ev("detached", reason, NoCrash))
                   ELSE UNCHANGED <<state, events, scripts, scriptState, sessions>>
              ELSE /\ state # "detached"
                   /\ state' = "detached"
                   /\ Len(events') >= Len(events) + 2
                   /\ events'[Len(events') - 1] =
                          Ev("detached", reason, IF rawCrash[1] = 0 THEN NoCrash ELSE rawCrash)]_vars

C7_Witness ==
    /\ persistTimeout # 0
    /\ state = "detached"
    /\ \E i \in 1 .. Len(events) : events[i] = Ev("detached", ConnectionTerminated, NoCrash)
    /\ \E i \in 1 .. Len(events) :
          events[i] = Ev("detached", ProcessTerminated, <<4321, "app", "summary", "report", "params">>)

\* C8: detach() of a session that is not Detached makes it Detached and emits
\* detached(application-requested, null); a detach() after the session was
\* destroyed changes nothing and emits nothing
C8_DetachOnce ==
    [][Detach =>
          IF state = "detached" \/ EventsOf("destroyed") # {}
          THEN UNCHANGED <<state, events>>
          ELSE /\ state' = "detached"
               /\ Len(events') >= Len(events) + 2
               /\ events'[Len(events') - 1] = Ev("detached", ApplicationRequested, NoCrash)]_vars

C10_NotificationsOnceInOrder ==
    /\ Cardinality(EventsOf("destroyed")) <= 1
    /\ \A i \in EventsOf("destroyed") :
          /\ i > 1
          /\ events[i - 1].type = "detached"
          /\ \A s \in ownedAtDestroy : \E j \in ScriptDestroyedOf(s) : j < i - 1

\* C11: a step at which a resume() fails (the connection, reattach, the link
\* of the proxy, the peer-connection setup or the transport's resume) leaves
\* the session's state and its pending queue as they were: an Interrupted
\* session stays Interrupted, nothing is purged
C11_FailedResumeStaysInterrupted ==
    [][\A k \in ResumeIds :
         (resumes[k].pc \notin {"idle", "failed"} /\ resumes'[k].pc = "failed")
            => UNCHANGED <<state, pendingMessages>>]_vars

\* a resume() failed in its peer-connection setup, the session is Interrupted
\* with a message waiting
C11_Witness ==
    \E k \in ResumeIds :
        /\ resumes[k].pc = "failed"
        /\ resumes[k].setup # 0
        /\ state = "interrupted"
        /\ pendingMessages # << >>

\* C12: every post on a session that is not Detached allocates a fresh serial
\* for its message, and no message reaches postMessages without one: a script's
\* message goes through the session's queue, never to the transport directly
C12_ScriptPostIsQueued ==
    [][(posted' = posted + 1 /\ state # "detached")
         => /\ nextSerial' = nextSerial + 1
            /\ \A i \in 1 .. Len(inflight') :
                 \A j \in 1 .. Len(inflight'[i].messages) :
                     inflight'[i].messages[j].serial # 0]_vars

\* C13: in a persistent session that ends up Attached for good, with a
\* transport that answers, every message the queue or a batch holds eventually
\* reaches the remote side (the batch of a failed send is sent again)
Held(u) ==
    \/ \E i \in 1 .. Len(pendingMessages) : pendingMessages[i].uid = u
    \/ \E i \in 1 .. Len(inflight) :
          \E j \in 1 .. Len(inflight[i].messages) : inflight[i].messages[j].uid = u

C13_AtLeastOnce ==
    (persistTimeout # 0 /\ <>[](state = "attached"))
        => \A u \in 1 .. MaxPosts : [](Held(u) => <>(u \in Range(remoteRx)))

\* C14: when the promise of a setupPeerConnection() rejects, the active proxy is
\* the one the setup started from, and the session never holds the peer
\* connection of a setup whose promise rejected; when it resolves, the active
\* proxy is the setup's peer proxy and its peer connection and options are held
C14_SetupIsAtomic ==
    [][\A p \in SetupIds :
         /\ (setups[p].pc \in {"offer", "ready"} /\ setups'[p].pc \in {"rejected", "failed"})
               => activeSession' = setups[p].server
         /\ setups'[p].pc \in {"rejected", "failed"} => peerConnection' # p
         /\ (setups[p].pc = "ready" /\ setups'[p].pc = "resolved")
               => /\ activeSession' = setups[p].peer
                  /\ peerConnection' = p
                  /\ peerOptions' # 0]_vars

\* C15: an ICE disconnection of the session's current peer connection makes a
\* persistent Attached session Interrupted, its scripts kept, with one
\* detached(connection-terminated, null); it makes a non-persistent session
\* Detached with that reason, all its scripts destroyed; the disconnection of
\* any other peer connection changes nothing of the session
C15_IceDisconnectionAsLinkLoss ==
    [][\A p \in SetupIds :
         (peerState[p] = "up" /\ peerState'[p] = "disconnected")
            => /\ (p = peerConnection /\ persistTimeout # 0 /\ state = "attached")
                    => /\ state' = "interrupted"
                       /\ UNCHANGED <<scripts, scriptState>>
                       /\ events' = Append(events, Ev("detached", ConnectionTerminated, NoCrash))
               /\ (p = peerConnection /\ persistTimeout = 0 /\ state # "detached")
                    => /\ state' = "detached"
                       /\ scripts' = << >>
                       /\ \A s \in Range(scripts) : scriptState'[s] = "destroyed"
                       /\ \E i \in Len(events) + 1 .. Len(events') :
                             events'[i] = Ev("detached", ConnectionTerminated, NoCrash)
               /\ p # peerConnection
                    => UNCHANGED <<state, scripts, scriptState, events, sessions,
                                   activeSession, obsoleteSession, peerConnection,
                                   peerOptions>>]_vars

\* the current peer connection of a persistent session that owns a script was
\* disconnected while the link was up: the session is Interrupted, the script kept
C15_Witness ==
    /\ \E p \in SetupIds : peerState[p] = "disconnected" /\ setups[p].pc = "resolved"
    /\ hostConnectionRequest = "resolved"
    /\ state = "interrupted"
    /\ \E s \in Range(scripts) : scriptState[s] = "created"

\* C16: while its signaling state is "starting" an IceCandidateQueue has emitted
\* nothing, and it holds every candidate it was given, in order
C16_NothingEmittedWhileStarting ==
    sessionState = "starting"
        => /\ emitted = << >>
           /\ pending = [i \in 1 .. added |-> i]

\* the timer expired before notifySessionStarted: two candidates and the end of
\* gathering are held back
C16_Witness ==
    /\ sessionState = "starting"
    /\ ~timer
    /\ Len(pending) = 2
    /\ gatheringState = "gathered"

\* C17: an IceCandidateQueue emits "done" at most once, however many times
\* add(null) is called
C17_DoneOnce ==
    Cardinality({i \in 1 .. Len(emitted) : emitted[i][1] = "done"}) <= 1

\* C18: once the script is destroyed no request waits and the table is empty;
\* a request that was waiting, or is issued then, is rejected with "Script is
\* destroyed" by one call of its completion; and such a request keeps that
\* outcome whatever reply arrives later
C18_DestroyedRejectsRequests ==
    [][\A id \in RequestIds :
         /\ isDestroyed' => /\ requestOutcome'[id] # "pending"
                            /\ pendingRequests' = {}
                            /\ destroyedListeners' = {}
         /\ (isDestroyed' /\ requestOutcome[id] \in {"none", "pending"} /\ requestOutcome'[id] # "none")
               => requestOutcome'[id] = "destroyed" /\ completions'[id] = 1
         /\ requestOutcome[id] = "destroyed"
               => requestOutcome'[id] = "destroyed" /\ completions'[id] = completions[id]]_vars

\* a request issued on the destroyed script was rejected, and a reply with its
\* id arrived after the destruction
C18_Witness ==
    \E id \in RequestIds :
        /\ requestOutcome[id] = "destroyed"
        /\ \E i \in 1 .. Len(inbound) :
              /\ inbound[i].late
              /\ isRpcMessage(inbound[i].message)
              /\ inbound[i].message.id = id

\* C19: the handler connected to the script's message stream was handed, once
\* each and in the order they arrived, exactly the messages that are neither
\* RPC messages (a send whose payload is an array starting with the RPC tag)
\* nor log messages
Public(messages) ==
    SelectSeq(messages, LAMBDA m : ~(\/ (m.message.type = "send" /\ m.message.array
                                           /\ m.message.tag = "frida:rpc")
                                     \/ m.message.type = "log"))

C19_OnlyPublicMessagesInOrder ==
    received = [i \in 1 .. Len(Public(inbound)) |-> Public(inbound)[i].n]

\* an RPC reply was filtered out between two public messages
C19_Witness ==
    /\ Len(inbound) = 3
    /\ isRpcMessage(inbound[2].message)
    /\ received = <<1, 3>>

\* C20: the Client has at most one link open; a link is opened only by a caller
\* (enumerateProcesses, attach, resume) that finds no memoized request, every
\* caller leaves with the request of the one link there is, and the loss of
\* the link clears the request and opens nothing
Asks ==
    \/ \E k \in ResumeIds : resumes[k].pc = "idle" /\ resumes'[k].pc = "connection"
    \/ \E c \in CallIds : clientCalls[c].pc = "idle" /\ clientCalls'[c].pc = "connection"

C20_OneSharedConnection ==
    [][/\ Cardinality(openLinks') <= 1
       /\ openLinks' \ openLinks # {} => Asks /\ hostConnectionRequest = "null"
       /\ Asks => /\ hostConnectionRequest' # "null"
                   /\ openLinks' = {linkGen'}
                   /\ hostConnectionRequest # "null" => UNCHANGED <<openLinks, linkGen>>
                   /\ \A k \in ResumeIds :
                        (resumes[k].pc = "idle" /\ resumes'[k].pc = "connection")
                            => resumes'[k].gen = linkGen'
                   /\ \A c \in CallIds :
                        (clientCalls[c].pc = "idle" /\ clientCalls'[c].pc = "connection")
                            => clientCalls'[c].gen = linkGen'
       /\ openLinks \ openLinks' # {} => hostConnectionRequest' = "null" /\ openLinks' = {}]_vars

\* after a loss of the link a resume and an attach wait for the same second link
C20_Witness ==
    /\ linkGen = 2
    /\ openLinks = {2}
    /\ \E k \in ResumeIds : resumes[k].pc = "connection" /\ resumes[k].gen = 2
    /\ \E c \in CallIds : /\ clientCalls[c].kind = "attach"
                           /\ clientCalls[c].pc = "connection"
                           /\ clientCalls[c].gen = 2

\* C21: the detached notification that a session-detached signal produces
\* carries null when the pid of the raw crash is 0 and otherwise the raw crash,
\* all five fields as they came
C21_CrashFromPid ==
    [][\A id \in SessionIds, reason \in SignalReasons, rawCrash \in RawCrashes :
          (OnAgentSessionDetached(id, reason, rawCrash) /\ Len(events') > Len(events))
              => \E i \in Len(events) + 1 .. Len(events') :
                    /\ events'[i].type = "detached"
                    /\ events'[i].crash = IF rawCrash[1] = 0 THEN NoCrash ELSE rawCrash]_vars

\* C21 as amended: as above, except that the notification of a persistent
\* session interrupted by a signal with the reason connection-terminated
\* carries null whatever the raw crash
C21_CrashFromPidAmended ==
    [][\A id \in SessionIds, reason \in SignalReasons, rawCrash \in RawCrashes :
          (OnAgentSessionDetached(id, reason, rawCrash) /\ Len(events') > Len(events))
              => \E i \in Len(events) + 1 .. Len(events') :
                    /\ events'[i].type = "detached"
                    /\ events'[i].arg = reason
                    /\ events'[i].crash =
                          IF persistTimeout # 0 /\ reason = ConnectionTerminated THEN NoCrash
                          ELSE IF rawCrash[1] = 0 THEN NoCrash
                          ELSE rawCrash]_vars

\* a non-persistent session was told of a lost connection with a crash of pid
\* 4321, and its handler was given that crash
C21_Witness ==
    /\ persistTimeout = 0
    /\ \E i \in 1 .. Len(events) :
          events[i] = Ev("detached", ConnectionTerminated,
                         <<4321, "app", "summary", "report", "params">>)

\* C22: the pending queue is sorted by strictly increasing serial
C22_QueueStrictlySorted ==
    \A i \in 1 .. Len(pendingMessages) - 1 :
        pendingMessages[i].serial < pendingMessages[i + 1].serial

\* C23: a step that resets the serial generator to 1 is the success of a
\* delivery that leaves no delivery in flight, and it leaves the pending queue
\* empty: no message posted earlier is queued or awaits a resend
C23_ResetOnlyWhenDrained ==
    [][\A i \in 1 .. Len(inflight) :
          (DeliverBatchResolved(i) /\ inflight[i].persistent /\ pendingDeliveries' = 0)
              => /\ nextSerial' = 1
                 /\ pendingMessages' = << >>
                 /\ \A j \in 1 .. Len(inflight') : ~inflight'[j].persistent]_vars

\* C24: in a persistent session a message that post() accepted is in the queue
\* or in a batch in flight after the post, and it leaves them only when the
\* send of a batch that contains it succeeds, when a resume purges it, or when
\* the session is destroyed
C24_AcceptedMessageStays ==
    [][persistTimeout # 0 =>
          /\ \A u \in 1 .. MaxPosts :
                (u = posted + 1 /\ posted' = u /\ state # "detached") => Held(u)'
          /\ \A u \in 1 .. MaxPosts :
                (Held(u) /\ ~Held(u)') =>
                    \/ state' = "detached"
                    \/ \E i \in 1 .. Len(inflight) :
                          /\ DeliverBatchResolved(i)
                          /\ u \in Range(Uids(inflight[i].messages))
                    \/ \E k \in ResumeIds, lastTxBatchId \in TxBatchIds \ {0} :
                          /\ ResumeResolved(k, lastTxBatchId)
                          /\ \E i \in 1 .. Len(pendingMessages) :
                                /\ pendingMessages[i].uid = u
                                /\ InAcknowledgedPrefix(pendingMessages, i, lastTxBatchId)]_vars

\* the size estimate of a batch: text length plus payload length, summed
RECURSIVE SizeOf(_)
SizeOf(messages) ==
    IF messages = << >> THEN 0
    ELSE Head(messages).size + SizeOf(Tail(messages))

\* the batch is a maximal prefix of queue q under the cap
MaximalPrefix(batch, q) ==
    LET n == Len(batch)
    IN /\ n >= 1
       /\ n <= Len(q)
       /\ \A j \in 1 .. n : batch[j].uid = q[j].uid /\ batch[j].serial = q[j].serial
       /\ SizeOf(batch) > maxSize => n = 1
       /\ n = Len(q) \/ SizeOf(batch) + q[n + 1].size > maxSize

\* C25: the batch a delivery pass sends, after a post or at the end of a resume,
\* is a non-empty prefix of the queue the pass found, over the cap only when it
\* is a single message, and maximal under the cap
C25_BatchIsMaximalPrefix ==
    [][/\ \A size \in MessageSizes \cup {maxSize + 1024 * 1024} :
             (PostToAgent(size) /\ Len(inflight') = Len(inflight) + 1)
                 => MaximalPrefix(inflight'[Len(inflight')].messages,
                                  Append(pendingMessages,
                                         [serial |-> nextSerial, deliveryAttempts |-> 0,
                                          uid |-> posted + 1, size |-> size]))
       /\ \A k \in ResumeIds, lastTxBatchId \in TxBatchIds :
             (ResumeResolved(k, lastTxBatchId) /\ Len(inflight') = Len(inflight) + 1)
                 => MaximalPrefix(inflight'[Len(inflight')].messages,
                                  IF lastTxBatchId # 0
                                  THEN Purge(pendingMessages, lastTxBatchId)
                                  ELSE pendingMessages)]_vars

\* a batch of one record over the cap and a batch of two records under it are
\* in flight
C25_Witness ==
    /\ \E i \in 1 .. Len(inflight) :
          Len(inflight[i].messages) = 1 /\ SizeOf(inflight[i].messages) > maxSize
    /\ \E i \in 1 .. Len(inflight) :
          Len(inflight[i].messages) = 2 /\ SizeOf(inflight[i].messages) <= maxSize

\* C26: a postMessages call is started only while the session is Attached, with
\* a batch that is not empty; a post while Interrupted appends the message with
\* the next serial and sends nothing; a post while Detached changes neither the
\* queue nor the serial generator
C26_SendsOnlyWhileAttached ==
    [][/\ Len(inflight') > Len(inflight)
            => /\ state' = "attached"
               /\ inflight'[Len(inflight')].messages # << >>
       /\ (posted' = posted + 1 /\ state = "interrupted")
            => /\ inflight' = inflight
               /\ nextSerial' = nextSerial + 1
               /\ \E size \in MessageSizes :
                     pendingMessages' = Append(pendingMessages,
                                               [serial |-> nextSerial, deliveryAttempts |-> 0,
                                                uid |-> posted + 1, size |-> size])
       /\ \A size \in MessageSizes :
             (PostToAgent(size) /\ state = "detached")
                 => pendingMessages' = pendingMessages /\ nextSerial' = nextSerial]_vars

\* the delivery attempts of message u before the step: those of its entry in
\* the queue, 0 for the message being posted
AttemptsBefore(u) ==
    IF \E i \in 1 .. Len(pendingMessages) : pendingMessages[i].uid = u
    THEN LET i == CHOOSE i \in 1 .. Len(pendingMessages) : pendingMessages[i].uid = u
         IN pendingMessages[i].deliveryAttempts
    ELSE 0

\* C27: a batch of a non-persistent session has batch id 0 and the attempt
\* counters of its messages unchanged, and a failed send returns nothing to the
\* queue; a batch of a persistent session has the serial of its last message as
\* batch id and every attempt counter one higher than before the pass
C27_BatchIdAndAttempts ==
    [][/\ Len(inflight') = Len(inflight) + 1
            => LET call == inflight'[Len(inflight')]
                   n == Len(call.messages)
               IN IF persistTimeout = 0
                  THEN /\ call.batchId = 0
                       /\ \A j \in 1 .. n :
                             call.messages[j].deliveryAttempts
                                 = AttemptsBefore(call.messages[j].uid)
                  ELSE /\ call.batchId = call.messages[n].serial
                       /\ \A j \in 1 .. n :
                             call.messages[j].deliveryAttempts
                                 = AttemptsBefore(call.messages[j].uid) + 1
       /\ \A i \in 1 .. Len(inflight) :
             (DeliverBatchRejected(i) /\ persistTimeout = 0)
                 => pendingMessages' = pendingMessages]_vars

\* a persistent session sends two messages in one batch for their second and
\* first attempt, with the serial of the second as batch id
C27_Witness ==
    /\ persistTimeout # 0
    /\ \E i \in 1 .. Len(inflight) :
          /\ Len(inflight[i].messages) = 2
          /\ inflight[i].messages[1].deliveryAttempts = 2
          /\ inflight[i].messages[2].deliveryAttempts = 1
          /\ inflight[i].batchId = inflight[i].messages[2].serial

\* C28: the session always has an active proxy, and when no setupPeerConnection()
\* and no resume() is under way it has no obsolete proxy
C28_ObsoleteOnlyWhileMigrating ==
    /\ activeSession # NoSession
    /\ ( /\ \A p \in SetupIds : setups[p].pc \notin {"offer", "ready"}
         /\ \A k \in ResumeIds :
               resumes[k].pc \notin {"connection", "reattach", "link", "setup", "resume"} )
          => obsoleteSession = NoSession

\* C29: when the onopen handler of a setup fails after its _beginMigration, the
\* active proxy is again the one that was active before that _beginMigration,
\* there is no obsolete proxy, the peer connection and the options of the setup
\* are not retained and the pending promise of the setup rejects; when it fails
\* before its _beginMigration the proxies are unchanged
C29_FailedMigrationRestores ==
    [][\A p \in SetupIds :
          PeerOpenRejected(p) =>
              IF setups[p].migrating
              THEN /\ activeSession' = setups[p].before
                   /\ obsoleteSession' = NoSession
                   /\ peerConnection' # p
                   /\ peerOptions' = peerOptions
                   /\ setups[p].ready = "pending" => setups'[p].ready = "rejected"
              ELSE /\ activeSession' = activeSession
                   /\ obsoleteSession' = obsoleteSession]_vars

\* C30: while a setup is between its _beginMigration and the outcome of
\* commitMigration(), no step starts a postMessages call
C30_NoSendWhileMigrating ==
    [][(\E p \in SetupIds : setups[p].migrating /\ setups[p].open = "commit")
          => Len(inflight') <= Len(inflight)]_vars

\* C31: the step that destroys a session with an established peer connection
\* closes that peer connection before it emits the detached notification, and
\* leaves the session without a peer connection
C31_PeerClosedBeforeDetached ==
    [][(state # "detached" /\ state' = "detached" /\ peerConnection # 0)
          => /\ peerConnection' = 0
             /\ peerState'[peerConnection] = "closed"
             /\ \E i, j \in Len(events) + 1 .. Len(events') :
                   /\ i < j
                   /\ events'[i] = Ev("peer.closed", peerConnection, NoCrash)
                   /\ events'[j].type = "detached"]_vars

\* C32: when an invocation of resume() fails, the active proxy is the one the
\* session had when resume() was called and no obsolete proxy has been added
C32_FailedResumeKeepsHandles ==
    [][\A k \in ResumeIds :
          (resumes[k].pc \notin {"idle", "failed", "resolved"} /\ resumes'[k].pc = "failed")
              => /\ activeSession' = resumes[k].before[1]
                 /\ obsoleteSession' \in {NoSession, resumes[k].before[2]}]_vars

\* the "add" batches of a sequence of emissions
AddBatches(out) ==
    LET adds == SelectSeq(out, LAMBDA e : e[1] = "add")
    IN [i \in 1 .. Len(adds) |-> adds[i][2]]

\* C33: the "add" batches an IceCandidateQueue has emitted, followed by its
\* buffer, are the candidates it was given, each once and in arrival order; no
\* batch is empty; once signaling has started a buffered candidate has a timer
\* that will flush it; notifySessionStarted flushes the buffer as one batch; and
\* at most one timer is pending
C33_EachCandidateInOneBatch ==
    [][/\ Flatten(AddBatches(emitted')) \o pending' = [i \in 1 .. added' |-> i]
       /\ \A i \in 1 .. Len(emitted') : emitted'[i][1] = "add" => emitted'[i][2] # << >>
       /\ (sessionState' = "started" /\ pending' # << >>) => timer'
       /\ timers' = IF timer' THEN 1 ELSE 0
       /\ (NotifySessionStarted /\ pending # << >>)
            => /\ AddBatches(emitted') = Append(AddBatches(emitted), pending)
               /\ pending' = << >>]_vars

\* two candidates buffered before notifySessionStarted went out as one batch, a
\* third, added afterwards, went out alone
C33_Witness ==
    /\ sessionState = "started"
    /\ Len(emitted) >= 2
    /\ emitted[1] = <<"add", <<1, 2>>>>
    /\ emitted[2] = <<"add", <<3>>>>

\* C34: request ids are 1, 2, ... in the order of the calls; the table holds
\* the ids of the calls that wait; a reply "ok" or "error" with the id of a call
\* that waits settles that call, removes its id and touches no other call; any
\* other message changes no call and no entry of the table; and no completion
\* is called twice
C34_RpcCorrelation ==
    [][/\ \A id \in RequestIds :
             (requestOutcome[id] = "none" /\ requestOutcome'[id] # "none")
                 => id = nextRequestId /\ nextRequestId' = id + 1
       /\ \A id \in RequestIds : id >= nextRequestId' => requestOutcome'[id] = "none"
       /\ pendingRequests' = {id \in RequestIds : requestOutcome'[id] = "pending"}
       /\ \A id \in RequestIds : completions'[id] <= 1
       /\ \A message \in InboundMessages :
             DispatchMessage(message) =>
                 IF /\ message.type = "send" /\ message.array /\ message.tag = "frida:rpc"
                    /\ message.operation \in {"ok", "error"}
                    /\ message.id \in pendingRequests
                 THEN /\ pendingRequests' = pendingRequests \ {message.id}
                      /\ requestOutcome' = [requestOutcome EXCEPT ![message.id] =
                            IF message.operation = "ok" THEN "resolved" ELSE "rejected"]
                      /\ completions' = [completions EXCEPT ![message.id] = 1]
                 ELSE UNCHANGED <<pendingRequests, requestOutcome, completions>>]_vars

\* of two calls the second was answered "error"; then came a reply "ok" with
\* its id again and a message with another operation for the first, which waits
C34_Witness ==
    /\ requestOutcome = <<"pending", "rejected">>
    /\ pendingRequests = {1}
    /\ completions = <<0, 1>>
    /\ Len(inbound) = 3
    /\ inbound[1].message.id = 2 /\ inbound[1].message.operation = "error"
    /\ inbound[2].message.id = 2 /\ inbound[2].message.operation = "ok"
    /\ inbound[3].message.id = 1 /\ inbound[3].message.operation = "other"

\* C35: the batch id an invocation of resume() passes to AgentSession.resume is
\* that of the last inbound batch the session was given, 0 when it was given
\* none, whatever the state it was in and whatever the batch was for
C35_ResumePassesLastRxBatchId ==
    [][\A k \in ResumeIds :
          (resumes[k].pc # "resume" /\ resumes'[k].pc = "resume")
              => resumes'[k].rx = IF rxLog' = << >> THEN 0
                                  ELSE rxLog'[Len(rxLog')].batchId]_vars

\* resume() passes the batch id 2 of a batch that came while the session was
\* Interrupted and had no message for a script of the registry, after a batch
\* 1 that was dispatched to a script
C35_Witness ==
    /\ Len(rxLog) = 2
    /\ rxLog[1] = [batchId |-> 1, dispatched |-> TRUE, state |-> "attached"]
    /\ rxLog[2] = [batchId |-> 2, dispatched |-> FALSE, state |-> "interrupted"]
    /\ \E k \in ResumeIds : resumes[k].pc = "resume" /\ resumes[k].rx = 2

\* C36: the session is in the registry of the Client exactly as long as it has
\* not emitted "destroyed"; an Interrupted session of the registry that is sent
\* a signal with a destroying reason is destroyed by it; and a signal for an id
\* the registry does not hold, or a lost link when the registry is empty,
\* changes no session
C36_RegistryHoldsLiveSessions ==
    [][/\ (("s" \in sessions) <=> (EventsOf("destroyed") = {}))'
       /\ \A id \in SessionIds, reason \in SignalReasons, rawCrash \in RawCrashes :
             OnAgentSessionDetached(id, reason, rawCrash) =>
                 IF id \in sessions
                 THEN (state = "interrupted" /\ reason # ConnectionTerminated)
                          => /\ state' = "detached"
                             /\ sessions' = sessions \ {id}
                             /\ events'[Len(events')] = Ev("destroyed", 0, NoCrash)
                 ELSE UNCHANGED <<state, events, sessions, scripts, scriptState>>
       /\ (LinkLost /\ sessions = {})
             => UNCHANGED <<state, events, sessions, scripts, scriptState>>]_vars

\* a persistent session was interrupted by one signal and destroyed by the next,
\* which took it off the registry
C36_Witness ==
    /\ sessions = {}
    /\ signals = 2
    /\ Len(events) = 3
    /\ events[1] = Ev("detached", ConnectionTerminated, NoCrash)
    /\ events[2].type = "detached" /\ events[2].arg = ProcessTerminated
    /\ events[3] = Ev("destroyed", 0, NoCrash)

\* C37: while the session is Detached its script registry is empty and no
\* script it was given is left undestroyed
C37_DetachedOwnsNoScript ==
    state = "detached"
        => /\ scripts = << >>
           /\ \A s \in ScriptIds : scriptState[s] # "created"

\* C38: at most one invocation of resume() is past its reattach call and not
\* yet over: a second call made meanwhile does not run the chain too
C38_OneRecoveryChain ==
    Cardinality({k \in ResumeIds :
                    resumes[k].pc \in {"reattach", "link", "setup", "resume"}}) <= 1

====
